---- MODULE Spec2Model ----
(***************************************************************************)
(* Model of the preprocessing -> solve -> postprocessing pipeline of the   *)
(* NEMT vehicle dispatching prototype: the address cache and geocoder of   *)
(* helpers.py, and LocationsMatrix and the record preprocessors of         *)
(* routing.py.                                                             *)
(***************************************************************************)
EXTENDS Integers, Sequences, FiniteSets, TLC

(***************************************************************************)
(* Bounds and input domains                                                *)
(***************************************************************************)
\* most rows of one input table
MaxRows == 2

\* free-text addresses that occur in the input tables
Addresses == {"A", "B", "C"}

\* Python's None (the empty tuple, so that it compares with lists, dicts and objects)
None == <<>>

\* the first candidate the external geocoder knows for an address
Candidate(a) ==
    IF a = "A" THEN [lon |-> 1, lat |-> 10]
    ELSE IF a = "B" THEN [lon |-> 2, lat |-> 20]
    ELSE [lon |-> 3, lat |-> 30]

\* a second, lower-ranked candidate of the external geocoder
OtherCandidate == [lon |-> 9, lat |-> 90]

\* the answers the external geocoding endpoint can give for an address:
\* an HTTP failure, HTTP 200 with zero candidates, HTTP 200 with candidates
Responses(a) ==
    { [status |-> 500, body |-> <<>>],
      [status |-> 200, body |-> <<>>],
      [status |-> 200, body |-> <<Candidate(a), OtherCandidate>>] }

VARIABLES
    address_cache,  \* AddressCache.address_cache: dict address -> [lon, lat] | None
    store,          \* the JSON file constants.ADDRESS_STORE: dict address -> [lon, lat] | None
    nominatim,      \* the external geocoder: what it answers for each address right now
    calls,          \* the two most recent operations on the geocoder / cache, oldest first
    matrix,         \* the LocationsMatrix object built last, or None
    ret,            \* the call that has just ended, or None
    DATA,           \* app.DATA: the tables, the preprocessed records and the last solution
    instances,      \* AddressCache objects of independent processes: process -> object | None
    files           \* the store files on disk: filename -> content

vars == <<address_cache, store, nominatim, calls, matrix, ret, DATA, instances, files>>

(***************************************************************************)
(* Python dicts: a function whose DOMAIN is the set of keys                *)
(***************************************************************************)
EmptyDict == [k \in {} |-> None]

\* d[k] = v
DictSet(d, k, v) == [x \in (DOMAIN d) \cup {k} |-> IF x = k THEN v ELSE d[x]]

\* d.get(k)
DictGet(d, k) == IF k \in DOMAIN d THEN d[k] ELSE None

\* len(d)
DictLen(d) == Cardinality(DOMAIN d)

\* the element of a one-element set; Only({F(x) : x \in {e}}) is F(e) with e
\* evaluated once
Only(S) == CHOOSE v \in S : TRUE

(***************************************************************************)
(* helpers.AddressCache; a cache is the pair [mem, disk] of the in-memory  *)
(* dict and the backing file                                               *)
(***************************************************************************)
\* AddressCache.get
AddressCache_get(c, address) == DictGet(c.mem, address)

\* AddressCache.save: the whole in-memory dict replaces the file
AddressCache_save(c) == [c EXCEPT !.disk = c.mem]

\* AddressCache.update
AddressCache_update(c, address, geocode, mode) ==
    LET c1 == [c EXCEPT !.mem = DictSet(c.mem, address, geocode)]
    IN  IF mode = "hard" THEN AddressCache_save(c1) ELSE c1

\* AddressCache.reset
AddressCache_reset(c, mode) ==
    LET c1 == [c EXCEPT !.mem = EmptyDict]
    IN  IF mode = "hard" THEN AddressCache_save(c1) ELSE c1

\* Python truthiness of a cached value: None is falsy, a two-element list is truthy
Truthy(v) == v # None

\* [float(lon), float(lat)] of the first candidate
FirstGeocode(response) == <<response.body[1].lon, response.body[1].lat>>

\* helpers.get_geocode: the result, the cache afterwards, and the number of
\* requests sent to the external geocoder, which answers `response` if asked
get_geocode(c, address, use_cache, response) ==
    IF use_cache /\ Truthy(AddressCache_get(c, address))
    THEN [result |-> AddressCache_get(c, address), cache |-> c, requests |-> 0]
    ELSE IF response.status = 200
         THEN IF Len(response.body) > 0
              THEN [result   |-> FirstGeocode(response),
                    cache    |-> IF use_cache
                                 THEN AddressCache_update(c, address, FirstGeocode(response), "hard")
                                 ELSE c,
                    requests |-> 1]
              ELSE [result |-> None, cache |-> c, requests |-> 1]
         ELSE [result   |-> None,
               cache    |-> AddressCache_update(c, address, None, "hard"),
               requests |-> 1]

\* the process-wide cache object helpers.address_cache
TheCache == [mem |-> address_cache, disk |-> store]

\* keep the two most recent operations
Push(log, rec) == IF Len(log) < 2 THEN Append(log, rec) ELSE <<log[2], rec>>

(***************************************************************************)
(* Geocoder and cache operations                                           *)
(***************************************************************************)
\* a call helpers.get_geocode(address, use_cache)
GetGeocode(address, use_cache) ==
    LET r == get_geocode(TheCache, address, use_cache, nominatim[address])
    IN  /\ ret = None
        /\ address_cache' = r.cache.mem
        /\ store' = r.cache.disk
        /\ calls' = Push(calls, [op        |-> "get_geocode",
                                 address   |-> address,
                                 use_cache |-> use_cache,
                                 requests  |-> r.requests,
                                 response  |-> IF r.requests = 1 THEN nominatim[address] ELSE None,
                                 result    |-> r.result])
        /\ UNCHANGED <<nominatim, matrix, ret, DATA, instances, files>>

\* a call helpers.address_cache.reset(mode)
Reset(mode) ==
    LET c == AddressCache_reset(TheCache, mode)
    IN  /\ ret = None
        /\ address_cache' = c.mem
        /\ store' = c.disk
        /\ calls' = Push(calls, [op |-> "reset", mode |-> mode])
        /\ UNCHANGED <<nominatim, matrix, ret, DATA, instances, files>>

\* the external geocoder changes what it answers for an address (an outage
\* starts or ends, a place is added)
NominatimChanges(address, response) ==
    /\ ret = None
    /\ nominatim[address] # response
    /\ nominatim' = [nominatim EXCEPT ![address] = response]
    /\ UNCHANGED <<address_cache, store, calls, matrix, ret, DATA, instances, files>>

\* app.DATA as the module builds it at import from the two CSV tables
AppData(vehicle, job) ==
    [vehicle           |-> vehicle,
     job               |-> job,
     vehicle_processed |-> None,
     vehicle_scheduled |-> <<>>,
     job_processed     |-> None,
     solution          |-> None,
     preprocess_errors |-> None,
     id_mapper         |-> [vehicle |-> EmptyDict, job |-> EmptyDict],
     routes            |-> EmptyDict,
     job_selected      |-> job,
     vehicle_selected  |-> vehicle]

\* constants.ADDRESS_STORE
ADDRESS_STORE == "data/addresses.json"

\* the store files an AddressCache can be constructed from
Filenames == {ADDRESS_STORE, "data/other.json"}

\* independent processes that each hold an AddressCache object
Processes == {"p1", "p2"}

\* a file that holds the JSON text of a mapping, followed by `tail` units left
\* over from a longer text that was overwritten from offset 0
FileOf(mapping, tail) == [written |-> TRUE, text |-> mapping, tail |-> tail]

\* helpers.py at import: the store file is created as {} and loaded
Init ==
    /\ address_cache = EmptyDict
    /\ store = EmptyDict
    /\ nominatim \in {f \in [Addresses -> UNION {Responses(a) : a \in Addresses}] :
                          \A a \in Addresses : f[a] \in Responses(a)}
    /\ calls = <<>>
    /\ matrix = None
    /\ ret = None
    /\ DATA = AppData(<<>>, <<>>)
    /\ instances = [p \in Processes |-> None]
    /\ files = [f \in Filenames |-> FileOf(EmptyDict, 0)]

Next ==
    \/ \E a \in Addresses, u \in BOOLEAN : GetGeocode(a, u)
    \/ \E m \in {"soft", "hard"} : Reset(m)
    \/ \E a \in Addresses : \E r \in Responses(a) : NominatimChanges(a, r)

Spec == Init /\ [][Next]_vars

(***************************************************************************)
(* Input tables: a pandas DataFrame is the sequence of its rows, each row  *)
(* carrying its index label (what iterrows() yields as i)                  *)
(***************************************************************************)
\* the index of a table read from one CSV file: 0..n-1
RangeIndex(n) == [k \in 1..n |-> k - 1]

\* the index left when the first row of a longer table was filtered out
\* (dropna, selection of one date): 1..n
ShiftedIndex(n) == [k \in 1..n |-> k]

\* the index pd.concat gives the rows of two files, of n-1 rows and of one
\* row: it restarts at 0
RestartingIndex(n) == [k \in 1..n |-> IF n > 1 /\ k = n THEN 0 ELSE k - 1]

Indexes(n) == {RangeIndex(n), ShiftedIndex(n), RestartingIndex(n)}

\* domain ids of vehicles
VehicleIds == {"V1", "V2"}

\* seconds the local time zone of the process is ahead of UTC (5 hours behind)
LocalUtcOffset == 0 - 18000

\* a working_hours string of the form "HH:MM-HH:MM"
DayShift == "08:00-17:00"

\* working hours that cross midnight
NightShift == "22:00-06:00"

\* datetime.strptime(text, "%H:%M").time() of the two sides of the "-", as
\* seconds past midnight
ShiftTimes == (DayShift :> <<8 * 3600, 17 * 3600>>) @@ (NightShift :> <<22 * 3600, 6 * 3600>>)

\* helpers.get_timestamp_interval parses the interval with strptime "%H:%M" on
\* both sides of the "-"; any other text raises ValueError
WellFormedInterval(interval) == interval \in DOMAIN ShiftTimes

\* a datetime.date is the number of its day; datetime.combine(date, time) in
\* seconds of local time
Combine(date, time) == date * 86400 + time

\* helpers.get_timestamp_interval(date, interval) of a well-formed interval:
\* both times are combined with the same date
get_timestamp_interval(date, interval) ==
    <<Combine(date, ShiftTimes[interval][1]) - LocalUtcOffset,
      Combine(date, ShiftTimes[interval][2]) - LocalUtcOffset>>

\* datetime.today().date(), the default date of preprocess_vehicles
Today == 3

\* the columns of a vehicle row that preprocess_vehicles reads
VehicleData ==
    [vehicle_id : VehicleIds, address : Addresses, working_hours : {DayShift, NightShift}]

\* the vehicle tables of at most MaxRows rows
VehicleTables ==
    UNION { { [k \in 1..n |-> [label      |-> ix[k],
                               vehicle_id |-> d[k].vehicle_id,
                               address    |-> d[k].address,
                               working_hours |-> d[k].working_hours]] :
                d \in [1..n -> VehicleData], ix \in Indexes(n) } : n \in 0..MaxRows }

(***************************************************************************)
(* routing.preprocess_vehicles                                             *)
(***************************************************************************)
\* what the loop of a preprocessor has built so far; dropped is the set of
\* row positions that ended in `continue`, requests the number of requests sent
\* to external services
EmptyPass(c) ==
    [records |-> <<>>, errors |-> EmptyDict, mapper |-> EmptyDict,
     dropped |-> {}, cache |-> c, raised |-> FALSE, requests |-> 0]

\* the solver id of the row iterrows() yields as (i, row)
VroomId(row) == row.label

\* the rows vdf[k..] of `for i, row in vdf.iterrows()` in preprocess_vehicles
RECURSIVE vehicles_loop(_, _, _, _, _, _)
vehicles_loop(vdf, k, acc, use_cache, world, date) ==
    IF k > Len(vdf) THEN acc
    ELSE
      LET row == vdf[k]
          i == VroomId(row)
          s == get_geocode(acc.cache, row.address, use_cache, world[row.address])
          e == get_geocode(s.cache, row.address, use_cache, world[row.address])
      IN  IF ~WellFormedInterval(row.working_hours)
          \* ValueError out of get_timestamp_interval
          THEN [acc EXCEPT !.raised = TRUE]
          ELSE IF s.result = None \/ e.result = None
          THEN vehicles_loop(vdf, k + 1,
                 [acc EXCEPT !.cache = e.cache,
                             !.requests = @ + s.requests + e.requests,
                             !.errors = DictSet(@, row.vehicle_id,
                                 [vroom_id |-> i,
                                  error |-> "Failed to convert start/end address to geocode"]),
                             !.dropped = @ \cup {k}],
                 use_cache, world, date)
          ELSE vehicles_loop(vdf, k + 1,
                 [acc EXCEPT !.cache = e.cache,
                             !.requests = @ + s.requests + e.requests,
                             !.mapper = DictSet(@, i, row.vehicle_id),
                             !.records = Append(@, [id    |-> i,
                                                    name  |-> row.vehicle_id,
                                                    start |-> s.result,
                                                    end   |-> e.result,
                                                    time_window |->
                                                        get_timestamp_interval(
                                                            date, row.working_hours)])],
                 use_cache, world, date)

\* routing.preprocess_vehicles(vdf, use_cache, date) run on cache c while the
\* external geocoder answers world[address]
preprocess_vehicles(vdf, use_cache, c, world, date) ==
    vehicles_loop(vdf, 1, EmptyPass(c), use_cache, world, date)

\* the value a preprocessor call leaves in ret; order is the iteration order of
\* the address set handed to LocationsMatrix, for the passes that build one
PassResult(fn, table, use_cache, r) ==
    [fn              |-> fn,
     table           |-> table,
     use_cache       |-> use_cache,
     raised          |-> r.raised,
     records         |-> r.records,
     errors          |-> r.errors,
     vroom_id_mapper |-> r.mapper,
     dropped         |-> r.dropped,
     order           |-> <<>>,
     osrm_status     |-> 0]

\* a call routing.preprocess_vehicles(vdf, use_cache)
PreprocessVehicles(vdf, use_cache) ==
    LET r == preprocess_vehicles(vdf, use_cache, TheCache, nominatim, Today)
    IN  /\ ret = None
        /\ address_cache' = r.cache.mem
        /\ store' = r.cache.disk
        /\ ret' = PassResult("preprocess_vehicles", vdf, use_cache, r)
        /\ UNCHANGED <<nominatim, calls, matrix, DATA, instances, files>>

\* the caller takes the value the call returned (or the exception it raised)
Return ==
    /\ ret # None
    /\ ret' = None
    /\ UNCHANGED <<address_cache, store, nominatim, calls, matrix, DATA, instances, files>>

\* the process is single-threaded: a call starts when no other call is running
Idle == ret = None

NextVehicles ==
    \/ Idle /\ \E vdf \in VehicleTables, u \in BOOLEAN : PreprocessVehicles(vdf, u)
    \/ Return

SpecVehicles == Init /\ [][NextVehicles]_vars

(***************************************************************************)
(* routing.LocationsMatrix                                                 *)
(***************************************************************************)
\* driving time in seconds the external matrix API reports between two coordinates
RoadDuration(c1, c2) == IF c1 = c2 THEN 0 ELSE IF c1[1] < c2[1] THEN 600 ELSE 1500

\* driving distance in meters the external matrix API reports between two coordinates
RoadDistance(c1, c2) == IF c1 = c2 THEN 0 ELSE IF c1[1] < c2[1] THEN 8000 ELSE 9000

\* what the matrix endpoint answers for the ordered coordinate list: two N x N
\* tables in the order of the request, or an error status; a request without
\* coordinates is always answered with an error
OsrmTable(coords, status) ==
    IF Len(coords) = 0
    THEN [status |-> 400, durations |-> <<>>, distances |-> <<>>]
    ELSE IF status = 200
    THEN [status    |-> 200,
          durations |-> [i \in 1..Len(coords) |->
                            [j \in 1..Len(coords) |-> RoadDuration(coords[i], coords[j])]],
          distances |-> [i \in 1..Len(coords) |->
                            [j \in 1..Len(coords) |-> RoadDistance(coords[i], coords[j])]]]
    ELSE [status |-> status, durations |-> <<>>, distances |-> <<>>]

\* the orders in which Python may iterate over a set
Orders(S) ==
    {f \in [1..Cardinality(S) -> S] : \A i, j \in 1..Cardinality(S) : i # j => f[i] # f[j]}

\* set(list)
ToSet(list) == {list[k] : k \in 1..Len(list)}

\* matrix_loop with the position in the iteration as the index of a location
RECURSIVE matrix_loop_position(_, _, _, _, _)
matrix_loop_position(order, k, acc, use_cache, world) ==
    IF k > Len(order) THEN acc
    ELSE
      LET location == order[k]
          g == get_geocode(acc.cache, location, use_cache, world[location])
          lookup == DictSet(acc.lookup, location, k - 1)
      IN  IF g.result # None
          THEN matrix_loop_position(order, k + 1,
                 [acc EXCEPT !.lookup = lookup, !.cache = g.cache,
                             !.requests = @ + g.requests,
                             !.coords = Append(@, g.result), !.i = @ + 1,
                             !.pos = DictSet(@, location, Len(acc.coords))],
                 use_cache, world)
          ELSE matrix_loop_position(order, k + 1,
                 [acc EXCEPT !.lookup = lookup, !.cache = g.cache,
                             !.requests = @ + g.requests],
                 use_cache, world)

\* the loop of compute_matrices over order[k..]; i is the running index, pos
\* the 0-based position in coords of the coordinate of each geocoded location
RECURSIVE matrix_loop(_, _, _, _, _)
matrix_loop(order, k, acc, use_cache, world) ==
    IF k > Len(order) THEN acc
    ELSE
      LET location == order[k]
          g == get_geocode(acc.cache, location, use_cache, world[location])
          lookup == DictSet(acc.lookup, location, acc.i)
      IN  IF g.result # None
          THEN matrix_loop(order, k + 1,
                 [acc EXCEPT !.lookup = lookup, !.cache = g.cache,
                             !.requests = @ + g.requests,
                             !.coords = Append(@, g.result), !.i = @ + 1,
                             !.pos = DictSet(@, location, Len(acc.coords))],
                 use_cache, world)
          ELSE matrix_loop(order, k + 1,
                 [acc EXCEPT !.lookup = lookup, !.cache = g.cache,
                             !.requests = @ + g.requests],
                 use_cache, world)

\* LocationsMatrix(locations, use_cache): __init__ and compute_matrices. order is
\* the iteration order of set(self.locations), osrm_status the status of the
\* matrix endpoint's answer. obj is the object, or None when the constructor raised.
compute_matrices(locations, use_cache, c, world, order, osrm_status) ==
    LET l == matrix_loop(order, 1,
                 [lookup |-> EmptyDict, coords |-> <<>>, i |-> 0, cache |-> c,
                  pos |-> EmptyDict, requests |-> 0],
                 use_cache, world)
        response == OsrmTable(l.coords, osrm_status)
    IN  [cache  |-> l.cache,
         coords |-> l.coords,
         pos    |-> l.pos,
         requests |-> l.requests + 1,
         raised |-> response.status # 200,
         obj    |-> IF response.status = 200
                    THEN [locations |-> locations,
                          durations |-> response.durations,
                          distances |-> response.distances,
                          lookup    |-> l.lookup,
                          use_cache |-> use_cache]
                    ELSE None]

\* table[self.lookup[source]][self.lookup[destination]] inside try/except KeyError,
\* evaluated left to right; Python lists are 0-based
matrix_entry(table, lookup, source, destination) ==
    IF source \notin DOMAIN lookup
    THEN [outcome |-> "None", value |-> None]
    ELSE IF lookup[source] >= Len(table)
    THEN [outcome |-> "IndexError", value |-> None]
    ELSE IF destination \notin DOMAIN lookup
    THEN [outcome |-> "None", value |-> None]
    ELSE IF lookup[destination] >= Len(table[lookup[source] + 1])
    THEN [outcome |-> "IndexError", value |-> None]
    ELSE [outcome |-> "value",
          value   |-> table[lookup[source] + 1][lookup[destination] + 1]]

\* LocationsMatrix.get_duration
get_duration(m, source, destination) ==
    matrix_entry(m.durations, m.lookup, source, destination)

\* LocationsMatrix.get_distance
get_distance(m, source, destination) ==
    matrix_entry(m.distances, m.lookup, source, destination)

\* lists of addresses handed to LocationsMatrix
AddressLists == UNION {[1..n -> Addresses] : n \in 0..MaxRows}

\* a call LocationsMatrix(locations, use_cache)
NewLocationsMatrix(locations, use_cache, order, osrm_status) ==
    LET r == compute_matrices(locations, use_cache, TheCache, nominatim, order, osrm_status)
    IN  /\ ret = None
        /\ order \in Orders(ToSet(locations))
        /\ address_cache' = r.cache.mem
        /\ store' = r.cache.disk
        /\ matrix' = IF r.raised THEN matrix
                     ELSE [obj |-> r.obj, coords |-> r.coords, order |-> order,
                           pos |-> r.pos]
        /\ ret' = [fn |-> "LocationsMatrix", raised |-> r.raised]
        /\ UNCHANGED <<nominatim, calls, DATA, instances, files>>

\* a call matrix.get_duration(source, destination)
GetDuration(source, destination) ==
    /\ ret = None
    /\ matrix # None
    /\ ret' = [fn |-> "get_duration", source |-> source, destination |-> destination,
               result |-> get_duration(matrix.obj, source, destination)]
    /\ UNCHANGED <<address_cache, store, nominatim, calls, matrix, DATA, instances, files>>

\* a call matrix.get_distance(source, destination)
GetDistance(source, destination) ==
    /\ ret = None
    /\ matrix # None
    /\ ret' = [fn |-> "get_distance", source |-> source, destination |-> destination,
               result |-> get_distance(matrix.obj, source, destination)]
    /\ UNCHANGED <<address_cache, store, nominatim, calls, matrix, DATA, instances, files>>

\* the statuses the matrix endpoint answers with
OsrmStatuses == {200, 400}

NextMatrix ==
    \/ Idle /\ \E locations \in AddressLists, u \in BOOLEAN, s \in OsrmStatuses :
                \E order \in Orders(ToSet(locations)) :
                    NewLocationsMatrix(locations, u, order, s)
    \/ \E a, b \in Addresses : GetDuration(a, b)
    \/ \E a, b \in Addresses : GetDistance(a, b)
    \/ Return

SpecMatrix == Init /\ [][NextMatrix]_vars

(***************************************************************************)
(* routing.preprocess_shipments and routing.preprocess_jobs                *)
(***************************************************************************)
\* constants.MAX_WAIT_TIME, seconds
MAX_WAIT_TIME == 300

\* constants.DEFAULT_SERVICE_TIME, seconds
DEFAULT_SERVICE_TIME == 300

\* helpers.str_to_timestamp(str(dt)): a naive local date-time, here in seconds
\* of local time, to epoch seconds
str_to_timestamp(dt) == dt - LocalUtcOffset

\* helpers.parse_skills of the default "1,2,3,4"
DefaultSkills == <<1, 2, 3, 4>>

\* Python's max
Max(a, b) == IF a >= b THEN a ELSE b

\* the calendar date of a date-time, as the number of the day
DateOf(dt) == dt \div 86400

\* pd.to_datetime(tasks['earliest_pickup']).min().date() of a table with rows
OperatingDate(tasks) ==
    DateOf(CHOOSE t \in {tasks[k].earliest_pickup : k \in 1..Len(tasks)} :
               \A k \in 1..Len(tasks) : t <= tasks[k].earliest_pickup)

\* a date-time text that pd.to_datetime cannot parse (it raises); every other
\* date-time is the number of seconds of local time it denotes
Unparseable == 0 - 1

\* pd.to_datetime(text) returns
Parses(dt) == dt # Unparseable

\* earliest_pickup / latest_delivery of a task row, seconds of local time; the
\* second has its pickup after its delivery deadline
TimeWindows ==
    { [earliest_pickup |-> 1000, latest_delivery |-> 2000],
      [earliest_pickup |-> 2000, latest_delivery |-> 1800] }

\* the columns of a job/shipment row that the preprocessors read, for trips
\* between two different addresses; the tables have no service_time, skills or
\* nb_passengers column, so the defaults apply
TaskData ==
    {d \in [pickup_address : Addresses, delivery_address : Addresses, window : TimeWindows] :
        d.pickup_address # d.delivery_address}

\* the job/shipment tables of at most MaxRows rows; job ids are 101, 102, ...
TaskTables ==
    UNION { { [k \in 1..n |-> [label            |-> ix[k],
                               job_id           |-> 100 + k,
                               pickup_address   |-> d[k].pickup_address,
                               delivery_address |-> d[k].delivery_address,
                               earliest_pickup  |-> d[k].window.earliest_pickup,
                               latest_delivery  |-> d[k].window.latest_delivery]] :
                d \in [1..n -> TaskData], ix \in Indexes(n) } : n \in 0..MaxRows }

\* sdf['pickup_address'].unique().tolist() + sdf['delivery_address'].unique().tolist(), as a set
TaskAddresses(sdf) ==
    {sdf[k].pickup_address : k \in 1..Len(sdf)} \cup {sdf[k].delivery_address : k \in 1..Len(sdf)}

\* Shipment with the waiting time added to the lower bound of the pickup window
Shipment_wait(row, i, pickup_location, delivery_location, estimated_pickup_time) ==
    [amount   |-> <<1>>,
     skills   |-> DefaultSkills,
     pickup   |-> [id           |-> i,
                   service      |-> DEFAULT_SERVICE_TIME,
                   location     |-> pickup_location,
                   time_windows |-> << <<str_to_timestamp(row.earliest_pickup + MAX_WAIT_TIME),
                                         str_to_timestamp(Max(row.earliest_pickup,
                                                              estimated_pickup_time))>> >>],
     delivery |-> [id           |-> i,
                   service      |-> DEFAULT_SERVICE_TIME,
                   location     |-> delivery_location,
                   time_windows |-> << <<str_to_timestamp(row.latest_delivery - MAX_WAIT_TIME),
                                         str_to_timestamp(row.latest_delivery)>> >>]]

\* Shipment with min in place of max in the pickup window
Shipment_min(row, i, pickup_location, delivery_location, estimated_pickup_time) ==
    [amount   |-> <<1>>,
     skills   |-> DefaultSkills,
     pickup   |-> [id           |-> i,
                   service      |-> DEFAULT_SERVICE_TIME,
                   location     |-> pickup_location,
                   time_windows |-> << <<str_to_timestamp(row.earliest_pickup - MAX_WAIT_TIME),
                                         str_to_timestamp(
                                             IF row.earliest_pickup <= estimated_pickup_time
                                             THEN row.earliest_pickup
                                             ELSE estimated_pickup_time)>> >>],
     delivery |-> [id           |-> i,
                   service      |-> DEFAULT_SERVICE_TIME,
                   location     |-> delivery_location,
                   time_windows |-> << <<str_to_timestamp(row.latest_delivery - MAX_WAIT_TIME),
                                         str_to_timestamp(row.latest_delivery)>> >>]]

\* the shipment object built from a row
Shipment(row, i, pickup_location, delivery_location, estimated_pickup_time) ==
    [amount   |-> <<1>>,
     skills   |-> DefaultSkills,
     pickup   |-> [id           |-> i,
                   service      |-> DEFAULT_SERVICE_TIME,
                   location     |-> pickup_location,
                   time_windows |-> << <<str_to_timestamp(row.earliest_pickup - MAX_WAIT_TIME),
                                         str_to_timestamp(Max(row.earliest_pickup,
                                                              estimated_pickup_time))>> >>],
     delivery |-> [id           |-> i,
                   service      |-> DEFAULT_SERVICE_TIME,
                   location     |-> delivery_location,
                   time_windows |-> << <<str_to_timestamp(row.latest_delivery - MAX_WAIT_TIME),
                                         str_to_timestamp(row.latest_delivery)>> >>]]

\* the rows sdf[k..] of `for i, row in sdf.iterrows()` in preprocess_shipments;
\* m is the LocationsMatrix. An exception ends the loop and the call.
RECURSIVE shipments_loop(_, _, _, _, _, _)
shipments_loop(sdf, k, acc, use_cache, world, m) ==
    IF k > Len(sdf) THEN acc
    ELSE
      LET row == sdf[k]
          i == VroomId(row)
          p == get_geocode(acc.cache, row.pickup_address, use_cache, world[row.pickup_address])
          d == get_geocode(p.cache, row.delivery_address, use_cache, world[row.delivery_address])
          duration == get_duration(m, row.pickup_address, row.delivery_address)
      IN  IF ~Parses(row.earliest_pickup) \/ ~Parses(row.latest_delivery)
          \* the parser's exception out of pd.to_datetime
          THEN [acc EXCEPT !.raised = TRUE]
          ELSE IF duration.outcome # "value"
          \* IndexError out of get_duration, or TypeError out of int(None)
          THEN [acc EXCEPT !.cache = d.cache, !.raised = TRUE,
                           !.requests = @ + p.requests + d.requests]
          ELSE IF p.result = None \/ d.result = None
          THEN shipments_loop(sdf, k + 1,
                 [acc EXCEPT !.cache = d.cache,
                             !.requests = @ + p.requests + d.requests,
                             !.errors = DictSet(@, row.job_id,
                                 [vroom_id |-> i,
                                  error |-> "Failed to convert pickup or delivery address to geocode"]),
                             !.dropped = @ \cup {k}],
                 use_cache, world, m)
          ELSE shipments_loop(sdf, k + 1,
                 [acc EXCEPT !.cache = d.cache,
                             !.requests = @ + p.requests + d.requests,
                             !.mapper = DictSet(@, i, row.job_id),
                             !.records = Append(@, Shipment(row, i, p.result, d.result,
                                                     row.latest_delivery - duration.value))],
                 use_cache, world, m)

\* routing.preprocess_shipments(sdf, use_cache) with matrix=None; order is the
\* iteration order of the address set inside LocationsMatrix
preprocess_shipments(sdf, use_cache, c, world, order, osrm_status) ==
    LET lm == compute_matrices(order, use_cache, c, world, order, osrm_status)
    IN  IF lm.raised
        THEN [EmptyPass(lm.cache) EXCEPT !.raised = TRUE, !.requests = lm.requests]
        ELSE shipments_loop(sdf, 1, [EmptyPass(lm.cache) EXCEPT !.requests = lm.requests],
                            use_cache, world, lm.obj)

\* the job object built from a row
Job(row, i, location) ==
    [id           |-> i,
     name         |-> row.job_id,
     service      |-> DEFAULT_SERVICE_TIME,
     delivery     |-> <<1>>,
     location     |-> location,
     skills       |-> DefaultSkills,
     time_windows |-> << <<str_to_timestamp(row.earliest_pickup - MAX_WAIT_TIME),
                           str_to_timestamp(row.earliest_pickup)>> >>]

\* the rows jdf[k..] of `for i, row in jdf.iterrows()` in preprocess_jobs
RECURSIVE jobs_loop(_, _, _, _, _)
jobs_loop(jdf, k, acc, use_cache, world) ==
    IF k > Len(jdf) THEN acc
    ELSE
      LET row == jdf[k]
          i == VroomId(row)
          g == get_geocode(acc.cache, row.pickup_address, use_cache, world[row.pickup_address])
      IN  IF ~Parses(row.earliest_pickup) \/ ~Parses(row.latest_delivery)
          \* the parser's exception out of pd.to_datetime
          THEN [acc EXCEPT !.raised = TRUE]
          ELSE IF g.result = None
          THEN jobs_loop(jdf, k + 1,
                 [acc EXCEPT !.cache = g.cache,
                             !.requests = @ + g.requests,
                             !.errors = DictSet(@, row.job_id,
                                 [vroom_id |-> i,
                                  error |-> "Failed to convert pickup address to geocode"]),
                             !.dropped = @ \cup {k}],
                 use_cache, world)
          ELSE jobs_loop(jdf, k + 1,
                 [acc EXCEPT !.cache = g.cache,
                             !.requests = @ + g.requests,
                             !.mapper = DictSet(@, i, row.job_id),
                             !.records = Append(@, Job(row, i, g.result))],
                 use_cache, world)

\* routing.preprocess_jobs(jdf, use_cache)
preprocess_jobs(jdf, use_cache, c, world) ==
    jobs_loop(jdf, 1, EmptyPass(c), use_cache, world)

\* a call routing.preprocess_shipments(sdf, use_cache)
PreprocessShipments(sdf, use_cache, order, osrm_status) ==
    LET r == preprocess_shipments(sdf, use_cache, TheCache, nominatim, order, osrm_status)
    IN  /\ ret = None
        /\ order \in Orders(TaskAddresses(sdf))
        /\ address_cache' = r.cache.mem
        /\ store' = r.cache.disk
        /\ ret' = [PassResult("preprocess_shipments", sdf, use_cache, r)
                      EXCEPT !.order = order, !.osrm_status = osrm_status]
        /\ UNCHANGED <<nominatim, calls, matrix, DATA, instances, files>>

\* a call routing.preprocess_jobs(jdf, use_cache)
PreprocessJobs(jdf, use_cache) ==
    LET r == preprocess_jobs(jdf, use_cache, TheCache, nominatim)
    IN  /\ ret = None
        /\ address_cache' = r.cache.mem
        /\ store' = r.cache.disk
        /\ ret' = PassResult("preprocess_jobs", jdf, use_cache, r)
        /\ UNCHANGED <<nominatim, calls, matrix, DATA, instances, files>>

\* a session in which the geocoder knows "A" and "B"; "C" may be unknown to it
\* or the lookup of "C" may fail
InitTasks ==
    /\ Init
    /\ nominatim["A"].status = 200 /\ Len(nominatim["A"].body) > 0
    /\ nominatim["B"].status = 200 /\ Len(nominatim["B"].body) > 0

NextTasks ==
    \/ Idle /\ \E sdf \in TaskTables, u \in BOOLEAN, s \in OsrmStatuses :
                \E order \in Orders(TaskAddresses(sdf)) :
                    PreprocessShipments(sdf, u, order, s)
    \/ Idle /\ \E jdf \in TaskTables, u \in BOOLEAN : PreprocessJobs(jdf, u)

SpecTasks == InitTasks /\ [][NextTasks]_vars

(***************************************************************************)
(* routing.optimize and the external solver                                *)
(***************************************************************************)
\* the statuses the solver endpoint answers with: solved, rejected input,
\* internal error
SolverStatuses == {200, 400, 500}

\* the HTTP call raised instead of answering (connection refused, timeout)
ConnectionError == [kind |-> "ConnectionError", status |-> 0, body |-> None]

\* the solver answered with a status and a JSON body
SolverResponse(status, body) == [kind |-> "response", status |-> status, body |-> body]

\* the request body routing.optimize builds
SolverRequest(vehicles, jobs, shipments) ==
    [vehicles  |-> vehicles,
     jobs      |-> IF Len(jobs) > 0 THEN jobs ELSE None,
     shipments |-> IF Len(shipments) > 0 THEN shipments ELSE None]

\* routing.optimize with a second POST after a failed one
routing_optimize_retry(vehicles, jobs, shipments, answer) ==
    [raised   |-> IF answer.kind = "ConnectionError" THEN "ConnectionError" ELSE "",
     posts    |-> IF answer.kind = "response" /\ answer.status # 200 THEN 2 ELSE 1,
     request  |-> SolverRequest(vehicles, jobs, shipments),
     solution |-> IF answer.kind = "response" /\ answer.status = 200
                  THEN answer.body ELSE None]

\* routing.optimize(vehicles, jobs, shipments) when the solver endpoint behaves
\* as `answer`: the exception that leaves the call (or ""), the number of POSTs
\* sent, the request body and the value returned
routing_optimize(vehicles, jobs, shipments, answer) ==
    IF answer.kind = "ConnectionError"
    THEN [raised |-> "ConnectionError", posts |-> 1,
          request |-> SolverRequest(vehicles, jobs, shipments), solution |-> None]
    ELSE [raised   |-> "",
          posts    |-> 1,
          request  |-> SolverRequest(vehicles, jobs, shipments),
          solution |-> IF answer.status = 200 THEN answer.body ELSE None]

(***************************************************************************)
(* Solver input and output: records as the preprocessors build them, and   *)
(* the solutions the external solver can answer with                       *)
(***************************************************************************)
\* the ids 0..n-1 of a table read from one file
Row(k, data) == [label |-> k - 1] @@ data

\* the vehicle table of the running example: n vehicles at address "A"
SampleVehicles(n) ==
    [k \in 1..n |-> Row(k, [vehicle_id |-> IF k = 1 THEN "V1" ELSE "V2",
                            address |-> "A", working_hours |-> DayShift])]

\* the task table of the running example: n trips from "A" to "B"
SampleTasks(n) ==
    [k \in 1..n |-> Row(k, [job_id |-> 100 + k,
                            pickup_address |-> "A", delivery_address |-> "B",
                            earliest_pickup |-> 1000, latest_delivery |-> 2000])]

\* a world in which the geocoder knows every address
AllKnown == [a \in Addresses |-> [status |-> 200, body |-> <<Candidate(a), OtherCandidate>>]]

\* the vehicle records preprocess_vehicles builds from the sample table
SampleVehicleRecords(n) ==
    preprocess_vehicles(SampleVehicles(n), TRUE, [mem |-> EmptyDict, disk |-> EmptyDict],
                        AllKnown, OperatingDate(SampleTasks(1))).records

\* the shipment records preprocess_shipments builds from the sample table
SampleShipmentRecords(n) ==
    IF n = 0 THEN <<>>
    ELSE preprocess_shipments(SampleTasks(n), TRUE, [mem |-> EmptyDict, disk |-> EmptyDict],
                              AllKnown, <<"A", "B">>, 200).records

\* the job records preprocess_jobs builds from the sample table
SampleJobRecords(n) ==
    preprocess_jobs(SampleTasks(n), TRUE, [mem |-> EmptyDict, disk |-> EmptyDict],
                    AllKnown).records

\* the distance in meters and the travel time in seconds of every leg of a route
Legs == {[distance |-> 1000, duration |-> 90], [distance |-> 1610, duration |-> 125]}

\* a solver id that no preprocessing pass of the running example assigns
StrayId == 7

\* the k-th step (0-based) of a route: distance and duration are cumulative
Step(type, id, location, k, leg) ==
    [type         |-> type,
     id           |-> id,
     location     |-> location,
     arrival      |-> str_to_timestamp(1000) + k * leg.duration,
     duration     |-> k * leg.duration,
     distance     |-> k * leg.distance,
     waiting_time |-> IF type = "pickup" THEN 45 ELSE 0,
     service      |-> IF type \in {"start", "end"} THEN 0 ELSE DEFAULT_SERVICE_TIME,
     load         |-> IF type = "pickup" THEN <<1>> ELSE <<0>>]

\* the elements of a set of numbers in ascending order
Ascending(S) ==
    CHOOSE f \in [1..Cardinality(S) -> S] :
        \A i, j \in 1..Cardinality(S) : i < j => f[i] < f[j]

\* the steps that serve the tasks at positions order[1..], the first being step k
RECURSIVE TaskSteps(_, _, _, _, _)
TaskSteps(tasks, order, k, leg, mode) ==
    IF order = <<>> THEN <<>>
    ELSE LET t == tasks[Head(order)]
         IN  IF mode = "shipment"
             THEN <<Step("pickup", t.pickup.id, t.pickup.location, k, leg),
                    Step("delivery", t.delivery.id, t.delivery.location, k + 1, leg)>>
                  \o TaskSteps(tasks, Tail(order), k + 2, leg, mode)
             ELSE <<Step("job", t.id, t.location, k, leg)>>
                  \o TaskSteps(tasks, Tail(order), k + 1, leg, mode)

\* the entries of the solver's unassigned list for the tasks at positions
\* order[1..]: one per job, two (pickup and delivery) per shipment
RECURSIVE UnassignedEntries(_, _, _)
UnassignedEntries(tasks, order, mode) ==
    IF order = <<>> THEN <<>>
    ELSE LET t == tasks[Head(order)]
         IN  IF mode = "shipment"
             THEN <<[id |-> t.pickup.id, type |-> "pickup", location |-> t.pickup.location],
                    [id |-> t.delivery.id, type |-> "delivery", location |-> t.delivery.location]>>
                  \o UnassignedEntries(tasks, Tail(order), mode)
             ELSE <<[id |-> t.id, type |-> "job", location |-> t.location]>>
                  \o UnassignedEntries(tasks, Tail(order), mode)

\* Python's sum over a list of numbers
RECURSIVE Sum(_)
Sum(list) == IF list = <<>> THEN 0 ELSE Head(list) + Sum(Tail(list))

\* the route of a vehicle record that serves the tasks at positions `assigned`;
\* with stray, the route has one more pickup step whose id is StrayId
SolverRoute(vehicle, tasks, assigned, leg, mode, stray) ==
    LET served == TaskSteps(tasks, Ascending(assigned), 1, leg, mode)
        extra  == IF stray
                  THEN <<Step("pickup", StrayId, vehicle.start, Len(served) + 1, leg)>>
                  ELSE <<>>
        steps  == <<Step("start", None, vehicle.start, 0, leg)>> \o served \o extra
                  \o <<Step("end", None, vehicle.end, Len(served) + Len(extra) + 1, leg)>>
    IN  [vehicle      |-> vehicle.id,
         steps        |-> steps,
         duration     |-> steps[Len(steps)].duration,
         distance     |-> steps[Len(steps)].distance,
         service      |-> Sum([k \in 1..Len(steps) |-> steps[k].service]),
         waiting_time |-> Sum([k \in 1..Len(steps) |-> steps[k].waiting_time])]

\* the body of a 200 answer: the first vehicle serves the tasks at positions
\* `assigned`, all other tasks are unassigned
Solution(vehicles, tasks, assigned, leg, mode, stray) ==
    LET routes == IF assigned = {} /\ ~stray THEN <<>>
                  ELSE <<SolverRoute(vehicles[1], tasks, assigned, leg, mode, stray)>>
        unassigned == UnassignedEntries(tasks, Ascending((1..Len(tasks)) \ assigned), mode)
    IN  [code       |-> 0,
         summary    |-> [routes       |-> Len(routes),
                         unassigned   |-> Len(unassigned),
                         distance     |-> Sum([k \in 1..Len(routes) |-> routes[k].distance]),
                         duration     |-> Sum([k \in 1..Len(routes) |-> routes[k].duration]),
                         service      |-> Sum([k \in 1..Len(routes) |-> routes[k].service]),
                         waiting_time |-> Sum([k \in 1..Len(routes) |-> routes[k].waiting_time])],
         unassigned |-> unassigned,
         routes     |-> routes]

\* the solutions the solver can answer a request with; it solves only requests
\* with at least one vehicle and one task, and rejects a job without an id
Solutions(vehicles, jobs, shipments) ==
    LET mode  == IF Len(shipments) > 0 THEN "shipment" ELSE "job"
        tasks == IF Len(shipments) > 0 THEN shipments ELSE jobs
    IN  IF Len(vehicles) = 0 \/ Len(tasks) = 0 THEN {}
        ELSE IF mode = "job" /\ \E k \in 1..Len(tasks) : "id" \notin DOMAIN tasks[k] THEN {}
        ELSE {Solution(vehicles, tasks, assigned, leg, mode, stray) :
                 assigned \in SUBSET (1..Len(tasks)), leg \in Legs, stray \in BOOLEAN}

\* what the solver endpoint can do with a request
SolverAnswers(vehicles, jobs, shipments) ==
    {ConnectionError}
    \cup {SolverResponse(status, [error |-> "rejected"]) : status \in SolverStatuses \ {200}}
    \cup {SolverResponse(200, body) : body \in Solutions(vehicles, jobs, shipments)}

\* a call routing.optimize(vehicles, jobs=jobs, shipments=shipments)
RoutingOptimize(vehicles, jobs, shipments, answer) ==
    LET r == routing_optimize(vehicles, jobs, shipments, answer)
    IN  /\ ret = None
        /\ ret' = [fn |-> "routing.optimize", answer |-> answer, raised |-> r.raised,
                   posts |-> r.posts, request |-> r.request, result |-> r.solution]
        /\ UNCHANGED <<address_cache, store, nominatim, calls, matrix, DATA, instances, files>>

(***************************************************************************)
(* Unit conversions of the display fields                                  *)
(***************************************************************************)
\* floor(meters * 0.621371): the distance in millionths of a mile, rounded down
MicroMiles(meters) == meters * 621 + (meters * 371) \div 1000

\* (meters * 0.000621371).astype(int): whole miles, fraction cut off
TruncMiles(meters) == MicroMiles(meters) \div 1000000

\* int(np.ceil(meters * 0.000621371)); below 10^9 meters only 0 is a whole
\* number of miles, because 621371 and 10^9 have no common divisor
CeilMiles(meters) == IF meters = 0 THEN 0 ELSE TruncMiles(meters) + 1

\* (seconds / 60).astype(int)
TruncMinutes(seconds) == seconds \div 60

\* int(np.ceil(seconds / 60))
CeilMinutes(seconds) == (seconds + 59) \div 60

\* int(np.ceil(x)) of a whole number x
CeilWhole(x) == x

(***************************************************************************)
(* helpers.get_job_address, app.format_route, app.format_summary           *)
(***************************************************************************)
\* str.lower() on the step types that occur
Lower(type) == IF type = "Start/End" THEN "start/end" ELSE type

\* Python truthiness of a domain job id (a number)
TruthyId(id) == id # 0

\* a call that returned value
Returned(value) == [raised |-> "", value |-> value]

\* a call that an exception left
Raised(exception) == [raised |-> exception, value |-> None]

\* helpers.get_job_address; job_id is read only for steps that are not start/end
get_job_address(veh_id, job_id, type, jobs, vehicles, id_mapper) ==
    IF Lower(type) \in {"start", "end", "start/end"}
    THEN LET vdf == SelectSeq(vehicles, LAMBDA row : row.vehicle_id = veh_id)
         IN  IF Len(vdf) = 0 THEN Returned("Start/End::" \o veh_id)
             ELSE Returned(vdf[1].address)
    ELSE IF job_id \in DOMAIN id_mapper /\ TruthyId(id_mapper[job_id])
    THEN LET rows == SelectSeq(jobs, LAMBDA row : row.job_id = id_mapper[job_id])
         IN  IF type = "pickup"
             THEN IF Len(rows) = 0 THEN Raised("IndexError")
                  ELSE Returned(rows[1].pickup_address)
             ELSE IF type = "delivery"
             THEN IF Len(rows) = 0 THEN Raised("IndexError")
                  ELSE Returned(rows[1].delivery_address)
             ELSE Returned("No Address Provided")
    ELSE Raised("Exception")

\* get_job_address applied to steps[k..] in turn, after it returned the
\* addresses acc for the steps before; the first exception ends the loop
RECURSIVE addresses_loop(_, _, _, _, _, _, _, _)
addresses_loop(veh_id, steps, k, acc, type_of, jobs, vehicles, id_mapper) ==
    IF k > Len(steps) THEN Returned(acc)
    ELSE LET a == get_job_address(veh_id, steps[k].id, type_of[steps[k].type],
                                  jobs, vehicles, id_mapper)
         IN  IF a.raised # "" THEN a
             ELSE addresses_loop(veh_id, steps, k + 1, Append(acc, a.value),
                                 type_of, jobs, vehicles, id_mapper)

\* the addresses of the steps, or the first exception out of get_job_address
step_addresses(veh_id, steps, type_of, jobs, vehicles, id_mapper) ==
    addresses_loop(veh_id, steps, 1, <<>>, type_of, jobs, vehicles, id_mapper)

\* the step types
StepTypes == {"start", "end", "pickup", "delivery", "job"}

\* the type as the solver gives it
SameType == [t \in StepTypes |-> t]

\* app.format_route: the rows of the table it renders
format_route(vehicle, route, jobs, vehicles, id_mapper) ==
    Only({
        IF address.raised # "" THEN address
        ELSE Returned([k \in 1..Len(route) |->
                 [step               |-> k - 1,
                  address            |-> address.value[k],
                  type               |-> route[k].type,
                  arrival            |-> route[k].arrival,
                  waiting_time_min   |-> TruncMinutes(route[k].waiting_time),
                  distance_mile      |-> TruncMiles(route[k].distance)]])
        : address \in {step_addresses(vehicle, route, SameType, jobs, vehicles, id_mapper)} })

\* app.format_summary: the one row of the table it renders
format_summary(summary) ==
    [routes          |-> summary.routes,
     assigned_jobs   |-> summary.assigned,
     unassigned_jobs |-> summary.unassigned,
     distance_mi     |-> CeilMiles(summary.distance),
     duration_min    |-> CeilWhole(summary.duration),
     service_min     |-> CeilMinutes(summary.service),
     waiting_min     |-> CeilMinutes(summary.waiting_time)]

(***************************************************************************)
(* helpers.build_osrm_path, geojson_assigned, geojson_unassigned,          *)
(* generate_leafmap                                                        *)
(***************************************************************************)
\* what the route-shape endpoint can do with a request: answer OK with a
\* geometry, answer with an error status, or the HTTP call raises
PathAnswers == {"ok", "not ok", "ConnectionError"}

\* a point of the road between two stops, as [lat, lon]
ViaPoint == <<5, 50>>

\* the road-following shape through the stops that the endpoint encodes in its
\* geometry: an encoded polyline is the list of [lat, lon] points it decodes
\* to, the empty string the empty list
RoadShape(coords) ==
    IF Len(coords) < 2 THEN coords
    ELSE <<coords[1], ViaPoint>> \o Tail(coords)

\* polyline.decode
polyline_decode(geometry) == geometry

\* helpers.build_osrm_path(coords)
build_osrm_path(coords, answer) ==
    IF answer = "ConnectionError" THEN Raised("ConnectionError")
    ELSE IF answer = "ok" THEN Returned(RoadShape(coords))
    ELSE Returned(<<>>)

\* location[::-1]
Reversed(location) == <<location[2], location[1]>>

\* the type geojson_assigned passes on for a step
GeojsonType == [t \in StepTypes |-> IF t \in {"start", "end"} THEN "Start/End" ELSE t]

\* helpers.geojson_assigned(steps_data, id_mapper, jobs, vehicles): the feature
\* collection, and the number of requests sent to the route-shape endpoint
geojson_assigned(steps_data, id_mapper, jobs, vehicles, answer) ==
  Only({
    LET steps   == steps_data.steps
        coords  == [k \in 1..Len(steps) |-> Reversed(steps[k].location)]
        path    == build_osrm_path(coords, answer)
        points  == [k \in 1..Len(steps) |->
                      [geometry   |-> [type |-> "Point", coordinates |-> steps[k].location],
                       properties |-> [step         |-> k - 1,
                                       type         |-> GeojsonType[steps[k].type],
                                       address      |-> address.value[k],
                                       arrival      |-> steps[k].arrival + LocalUtcOffset,
                                       duration     |-> CeilMinutes(steps[k].duration),
                                       distance     |-> CeilMiles(steps[k].distance),
                                       waiting_time |-> CeilMinutes(steps[k].waiting_time),
                                       service      |-> CeilMinutes(steps[k].service),
                                       load         |-> steps[k].load[1]]]]
        linestring ==
            [geometry   |-> [type |-> "LineString", coordinates |-> coords],
             properties |-> [vehicle_id         |-> steps_data.vehicle_id,
                             total_distance     |-> CeilMiles(steps_data.distance),
                             total_duration     |-> CeilMinutes(steps_data.duration),
                             total_waiting_time |-> CeilMinutes(steps_data.waiting_time)],
             route      |-> path.value]
    IN  IF address.raised # ""
        THEN [raised |-> address.raised, requests |-> 0, geojson |-> None]
        ELSE IF path.raised # ""
        THEN [raised |-> path.raised, requests |-> 1, geojson |-> None]
        ELSE [raised   |-> "",
              requests |-> 1,
              geojson  |-> [points     |-> points,
                            linestring |-> linestring,
                            vehicle_id |-> steps_data.vehicle_id]]
    : address \in {step_addresses(steps_data.vehicle_id, steps_data.steps, GeojsonType,
                                  jobs, vehicles, id_mapper)} })

\* list(map(geojson_assigned, routes)) from routes[k] on, after the calls for
\* the routes before gave acc; the first exception ends it. answers[k] is what
\* the route-shape endpoint does with the request for routes[k]
RECURSIVE geojsons_loop(_, _, _, _, _, _, _)
geojsons_loop(routes, k, acc, id_mapper, jobs, vehicles, answers) ==
    IF k > Len(routes) THEN acc
    ELSE LET g == geojson_assigned(routes[k], id_mapper, jobs, vehicles, answers[k])
         IN  IF g.raised # ""
             THEN [raised |-> g.raised, requests |-> acc.requests + g.requests,
                   value |-> None]
             ELSE geojsons_loop(routes, k + 1,
                      [acc EXCEPT !.requests = @ + g.requests,
                                  !.value = Append(@, g.geojson)],
                      id_mapper, jobs, vehicles, answers)

\* list(map(lambda x: geojson_assigned(x, id_mapper, jobs, vehicles), routes))
assigned_geojsons(routes, id_mapper, jobs, vehicles, answers) ==
    geojsons_loop(routes, 1, [raised |-> "", requests |-> 0, value |-> <<>>],
                  id_mapper, jobs, vehicles, answers)

\* an unassigned argument: the list of the solver's entries, or a table of task rows
AsList(entries) == [kind |-> "list", rows |-> entries]

AsDataFrame(table) == [kind |-> "DataFrame", rows |-> table]

\* the rows unassigned_data[k..] of the loop of geojson_unassigned: the point
\* features, two per row, with the cache as the two cached lookups leave it
RECURSIVE unassigned_loop(_, _, _, _)
unassigned_loop(rows, k, acc, world) ==
    IF k > Len(rows) THEN acc
    ELSE
      LET row == rows[k]
          p == get_geocode(acc.cache, row.pickup_address, TRUE, world[row.pickup_address])
          d == get_geocode(p.cache, row.delivery_address, TRUE, world[row.delivery_address])
      IN  unassigned_loop(rows, k + 1,
            [acc EXCEPT !.cache = d.cache,
                        !.requests = @ + p.requests + d.requests,
                        !.points = @ \o <<[type |-> "pickup", job_id |-> row.job_id,
                                           coordinates |-> p.result],
                                          [type |-> "delivery", job_id |-> row.job_id,
                                           coordinates |-> d.result]>>],
            world)

\* helpers.geojson_unassigned(unassigned_data): a list has no iterrows()
geojson_unassigned(unassigned_data, c, world) ==
    IF unassigned_data.kind = "list"
    THEN [raised |-> "AttributeError", cache |-> c, requests |-> 0, points |-> <<>>]
    ELSE unassigned_loop(unassigned_data.rows, 1,
             [raised |-> "", cache |-> c, requests |-> 0, points |-> <<>>], world)

\* the lines generate_leafmap draws, one per feature collection: the decoded
\* route when the line feature has a 'route' key, else its own coordinates
MapLines(geojsons) ==
    [k \in 1..Len(geojsons) |->
        LET feature == geojsons[k].linestring
        IN  [vehicle_id |-> geojsons[k].vehicle_id,
             locations  |-> IF "route" \in DOMAIN feature
                            THEN polyline_decode(feature.route)
                            ELSE feature.geometry.coordinates]]

\* helpers.generate_leafmap(routes, id_mapper, jobs, vehicles, unassigned) on
\* cache c; answers[k] is what the route-shape endpoint does with the k-th
\* request, rejects_empty whether the map library refuses a line without points
generate_leafmap(routes, id_mapper, jobs, vehicles, unassigned, c, world, answers, rejects_empty) ==
  Only({
    LET failed(exception, cache, requests) ==
            [raised |-> exception, cache |-> cache, path_requests |-> a.requests,
             requests |-> requests, map |-> None]
    IN  IF a.raised # "" THEN failed(a.raised, c, 0)
        ELSE IF u.raised # "" THEN failed(u.raised, u.cache, u.requests)
        \* None[::-1] for a point without coordinates
        ELSE IF \E k \in 1..Len(u.points) : u.points[k].coordinates = None
        THEN failed("TypeError", u.cache, u.requests)
        \* the center of no coordinates is not a pair
        ELSE IF Len(routes) = 0 /\ Len(u.points) = 0
        THEN failed("TypeError", u.cache, u.requests)
        ELSE IF /\ rejects_empty
                /\ \E k \in 1..Len(a.value) : MapLines(a.value)[k].locations = <<>>
        THEN failed("ValueError", u.cache, u.requests)
        ELSE [raised        |-> "",
              cache         |-> u.cache,
              path_requests |-> a.requests,
              requests      |-> u.requests,
              map           |-> [unassigned |-> u.points,
                                 vehicles   |-> [k \in 1..Len(a.value) |-> a.value[k].points],
                                 lines      |-> MapLines(a.value)]]
    : a \in {assigned_geojsons(routes, id_mapper, jobs, vehicles, answers)},
      u \in {geojson_unassigned(unassigned, c, world)} })

\* helpers.generate_generic_leafmap(): a map without features
generate_generic_leafmap == [unassigned |-> <<>>, vehicles |-> <<>>, lines |-> <<>>]

(***************************************************************************)
(* app.preprocess_data and routing.preprocess                              *)
(***************************************************************************)
\* a working_hours text that is not of the form "HH:MM-HH:MM"
BadShift == "8am-5pm"

\* the vehicle tables shown in the UI: at most MaxRows vehicles based at "A"
AppVehicleTables ==
    UNION { { [k \in 1..n |-> Row(k, [vehicle_id    |-> IF k = 1 THEN "V1" ELSE "V2",
                                      address       |-> "A",
                                      working_hours |-> h[k]])] :
                h \in [1..n -> {DayShift, NightShift, BadShift}] } : n \in 0..MaxRows }

\* the job tables shown in the UI: at most MaxRows trips from "A" to "B", due on
\* the first or on the second day
AppTaskTables ==
    UNION { { [k \in 1..n |-> Row(k, [job_id           |-> 100 + k,
                                      pickup_address   |-> "A",
                                      delivery_address |-> "B",
                                      earliest_pickup  |-> t[k].earliest_pickup,
                                      latest_delivery  |-> t[k].latest_delivery])] :
                t \in [1..n -> [earliest_pickup : {1000, Unparseable},
                                latest_delivery : {2000, 90000, Unparseable}]] } :
            n \in 0..MaxRows }

\* pd.to_datetime(tasks['latest_delivery']).dt.date.unique()
UniqueDates(tasks) == {DateOf(tasks[k].latest_delivery) : k \in 1..Len(tasks)}

\* routing.preprocess(vdf, tasks, task_type, use_cache): the shipments are
\* processed first, then the vehicles
routing_preprocess(vdf, tasks, task_type, use_cache, c, world, order, osrm_status) ==
    IF task_type = "job"
    THEN [raised |-> "NotImplementedError", cache |-> c, requests |-> 0, value |-> None]
    ELSE
      Only({
        IF shi.raised
        THEN [raised |-> "Exception", cache |-> shi.cache, requests |-> shi.requests,
              value |-> None]
        ELSE Only({
          IF veh.raised
          THEN [raised |-> "ValueError", cache |-> veh.cache,
                requests |-> shi.requests + veh.requests, value |-> None]
          ELSE [raised   |-> "",
                cache    |-> veh.cache,
                requests |-> shi.requests + veh.requests,
                value    |-> [vehicles  |-> veh.records,
                              jobs      |-> <<>>,
                              shipments |-> shi.records,
                              errors    |-> [vehicle  |-> veh.errors,
                                             job      |-> EmptyDict,
                                             shipment |-> shi.errors],
                              mapper    |-> [vehicle  |-> veh.mapper,
                                             job      |-> EmptyDict,
                                             shipment |-> shi.mapper]]]
          : veh \in {preprocess_vehicles(vdf, use_cache, shi.cache, world,
                                          OperatingDate(tasks))} })
        : shi \in {preprocess_shipments(tasks, use_cache, c, world, order, osrm_status)} })

\* app.preprocess_data(session_id, vdf, tasks) under @logger.catch, which turns
\* an exception into the return value None: the value returned, DATA and the
\* cache afterwards, and the number of requests sent to external services
preprocess_data(vdf, tasks, task_type, use_cache, D, c, world, order, osrm_status) ==
  Only({
    LET D1 == [D EXCEPT !.vehicle_processed = p.value.vehicles,
                        !.job_processed     = IF task_type = "shipment"
                                              THEN p.value.shipments ELSE p.value.jobs,
                        !.preprocess_errors = p.value.errors,
                        !.id_mapper         = p.value.mapper]
        nb_vehicles == Len(D1.vehicle_processed)
        nb_jobs == Len(D1.job_processed)
        nb_errors == DictLen(p.value.errors.vehicle) + DictLen(p.value.errors.job)
                     + DictLen(p.value.errors.shipment)
        unchanged(exception, value) ==
            [raised |-> exception, returned |-> value, data |-> D, cache |-> c, requests |-> 0]
    IN  IF Len(vdf) = 0 \/ Len(tasks) = 0
        THEN unchanged("", <<"Preprocessing failed: no vehicles or jobs", "">>)
        ELSE IF \E k \in 1..Len(tasks) : ~Parses(tasks[k].latest_delivery)
        THEN unchanged("DateParseError", None)
        ELSE IF Cardinality(UniqueDates(tasks)) > 1
        THEN unchanged("", <<"Preprocessing failed: multiple dates provided", "">>)
        ELSE IF p.raised # ""
        THEN [raised |-> p.raised, returned |-> None, data |-> D, cache |-> p.cache,
              requests |-> p.requests]
        ELSE [raised   |-> "",
              returned |-> <<[date        |-> Only(UniqueDates(tasks)),
                              status      |-> IF nb_vehicles > 0 /\ nb_jobs > 0
                                              THEN "complete" ELSE "failed",
                              nb_vehicles |-> nb_vehicles,
                              nb_jobs     |-> nb_jobs,
                              error_count |-> nb_errors],
                             IF nb_errors > 0 THEN "### Errors + table" ELSE "### Errors">>,
              data     |-> D1,
              cache    |-> p.cache,
              requests |-> p.requests]
    : p \in {routing_preprocess(vdf, tasks, task_type, use_cache, c, world, order,
                                 osrm_status)} })

\* the Preprocess button: preprocess_data(session_id, veh_output, job_output), the
\* two tables being those the components show: the handlers that write a table
\* of DATA hand the same table to the component, which is DATA[..._selected];
\* task_type and use_cache keep their defaults
PreprocessData(order, osrm_status) ==
    \E r \in {preprocess_data(DATA.vehicle_selected, DATA.job_selected, "shipment", TRUE,
                              DATA, TheCache, nominatim, order, osrm_status)} :
        /\ ret = None
        /\ order \in Orders(TaskAddresses(DATA.job_selected))
        /\ DATA' = r.data
        /\ address_cache' = r.cache.mem
        /\ store' = r.cache.disk
        /\ ret' = [fn |-> "preprocess_data", raised |-> r.raised, returned |-> r.returned,
                   requests |-> r.requests, order |-> order, osrm_status |-> osrm_status]
        /\ UNCHANGED <<nominatim, calls, matrix, instances, files>>

(***************************************************************************)
(* app.optimize                                                            *)
(***************************************************************************)
\* the output components of optimize_button.click
OptimizeOutputs == <<"summary_output", "unassigned_output", "map_output", "vehicle_picker">>

\* DATA['vehicle_processed'] and DATA['job_processed'] are None until the one
\* assignment in preprocess_data that also sets DATA['preprocess_errors']
NotPreprocessed(D) == D.preprocess_errors = None

\* DATA['id_mapper']['vehicle'].get(route['vehicle']); the text "None" stands
\* for None among the vehicle ids
VehicleIdOf(D, route) ==
    IF route.vehicle \in DOMAIN D.id_mapper.vehicle
    THEN D.id_mapper.vehicle[route.vehicle] ELSE "None"

\* the loop `for route in solution['routes']` over routes[k..]: the values of
\* the local dict routes, and DATA as the loop leaves it. An exception out of
\* format_route ends the loop after the append to DATA['vehicle_scheduled'].
RECURSIVE routes_loop(_, _, _, _)
routes_loop(routes, k, acc, task_type) ==
    IF k > Len(routes) THEN acc
    ELSE
      LET route == routes[k]
          id == VehicleIdOf(acc.data, route)
          scheduled == [acc.data EXCEPT !.vehicle_scheduled = Append(@, id)]
      IN  Only({
            IF text.raised # ""
            THEN [acc EXCEPT !.raised = text.raised, !.data = scheduled]
            ELSE Only({routes_loop(routes, k + 1, next, task_type) : next \in {
                   [acc EXCEPT !.routes = Append(@, [duration     |-> route.duration,
                                                     vehicle_id   |-> id,
                                                     distance     |-> route.distance,
                                                     waiting_time |-> route.waiting_time,
                                                     steps        |-> route.steps]),
                               !.data = [scheduled EXCEPT
                                            !.routes = DictSet(@, id, text.value)]]}})
            : text \in {format_route(id, route.steps, acc.data.job_selected,
                                     acc.data.vehicle_selected,
                                     acc.data.id_mapper[task_type])} })

\* lines 254-258: the summary as optimize rewrites it in place
translated_summary(summary, recipe, jobs) ==
    LET unassigned == IF recipe = "cpdptw" THEN summary.unassigned \div 2
                      ELSE summary.unassigned
    IN  [routes       |-> summary.routes,
         unassigned   |-> unassigned,
         assigned     |-> Len(jobs) - unassigned,
         distance     |-> summary.distance,
         duration     |-> summary.duration,
         service      |-> summary.service,
         waiting_time |-> summary.waiting_time]

\* app.format_unassigned of the rows of DATA['job_selected'] whose job_id is the
\* domain id of an entry of the solver's unassigned list
format_unassigned(jobs, unassigned, id_mapper) ==
    LET rows == SelectSeq(jobs, LAMBDA row :
                    \E k \in 1..Len(unassigned) :
                        /\ unassigned[k].id \in DOMAIN id_mapper
                        /\ id_mapper[unassigned[k].id] = row.job_id)
    IN  IF Len(rows) = 0 THEN <<"0 unassigned jobs">> ELSE rows

\* the outcome of app.optimize when an exception was caught by @logger.catch:
\* the UI is handed None
Caught(exception, data, cache, solution, posts, gets) ==
    [raised |-> exception, returned |-> None, data |-> data, cache |-> cache,
     solution |-> solution, posts |-> posts, path_requests |-> gets]

\* lines 238-263 of app.optimize: the translation of a solution, D being DATA
\* after DATA['solution'] = solution
translate_solution(task_type, D, c, world, solution, posts, path_answer, rejects_empty) ==
    LET jobs    == D.job_processed
        recipe  == IF task_type = "shipment" THEN "cpdptw" ELSE "cvrp"
        summary == translated_summary(solution.summary, recipe, jobs)
    IN  Only({
          IF loop.raised # "" THEN Caught(loop.raised, loop.data, c, solution, posts, 0)
          ELSE Only({
            IF lfmap.raised # ""
            THEN Caught(lfmap.raised, loop.data, lfmap.cache, solution, posts,
                        lfmap.path_requests)
            ELSE [raised        |-> "",
                  returned      |-> <<format_summary(summary),
                                      format_unassigned(loop.data.job_selected,
                                                        solution.unassigned,
                                                        loop.data.id_mapper[task_type]),
                                      lfmap.map,
                                      loop.data.vehicle_scheduled>>,
                  data          |-> [loop.data EXCEPT !.solution.summary = summary],
                  cache         |-> lfmap.cache,
                  solution      |-> solution,
                  posts         |-> posts,
                  path_requests |-> lfmap.path_requests]
            : lfmap \in {generate_leafmap(loop.routes, loop.data.id_mapper[task_type],
                             loop.data.job_selected, loop.data.vehicle_selected,
                             AsList(solution.unassigned), c, world,
                             [k \in 1..Len(loop.routes) |-> path_answer], rejects_empty)} })
          : loop \in {routes_loop(solution.routes, 1,
                          [raised |-> "", routes |-> <<>>,
                           data |-> [D EXCEPT !.vehicle_scheduled = <<>>]],
                          task_type)} })

\* app.optimize(session_id, task_type) under @logger.catch: the value handed to
\* the UI (None when an exception was caught), DATA and the cache afterwards,
\* the POSTs sent to the solver and the GETs sent to the route-shape endpoint
app_optimize(task_type, D, c, world, answer, path_answer, rejects_empty) ==
    IF NotPreprocessed(D)
    \* len(None) in routing.optimize
    THEN Caught("TypeError", D, c, None, 0, 0)
    ELSE Only({
      IF o.raised # "" THEN Caught(o.raised, D, c, None, o.posts, 0)
      ELSE IF o.solution = None
      THEN [raised        |-> "",
            returned      |-> <<"Optimization failed", "Optimization failed",
                                generate_generic_leafmap>>,
            data          |-> [D EXCEPT !.solution = None],
            cache         |-> c,
            solution      |-> None,
            posts         |-> o.posts,
            path_requests |-> 0]
      ELSE translate_solution(task_type, [D EXCEPT !.solution = o.solution], c, world,
                              o.solution, o.posts, path_answer, rejects_empty)
      : o \in {IF task_type = "shipment"
               THEN routing_optimize(D.vehicle_processed, <<>>, D.job_processed, answer)
               ELSE routing_optimize(D.vehicle_processed, D.job_processed, <<>>, answer)} })

\* a call app.optimize(session_id, task_type); the Optimize button calls it
\* with task_type at its default 'shipment'. id_mapper is DATA['id_mapper'] as
\* the call found it.
Optimize(task_type, answer, path_answer, rejects_empty) ==
    \E r \in {app_optimize(task_type, DATA, TheCache, nominatim, answer, path_answer,
                           rejects_empty)} :
        /\ ret = None
        /\ DATA' = r.data
        /\ address_cache' = r.cache.mem
        /\ store' = r.cache.disk
        /\ ret' = [fn |-> "app.optimize", task_type |-> task_type, answer |-> answer,
                   path_answer |-> path_answer, id_mapper |-> DATA.id_mapper,
                   raised |-> r.raised,
                   returned |-> r.returned, solution |-> r.solution,
                   posts |-> r.posts, path_requests |-> r.path_requests]
        /\ UNCHANGED <<nominatim, calls, matrix, instances, files>>

\* the answers the solver can give to the request app.optimize sends
AppAnswers(task_type) ==
    IF NotPreprocessed(DATA) THEN {ConnectionError}
    ELSE IF task_type = "shipment"
    THEN SolverAnswers(DATA.vehicle_processed, <<>>, DATA.job_processed)
    ELSE SolverAnswers(DATA.vehicle_processed, DATA.job_processed, <<>>)

\* the application has started with its two tables loaded, and the geocoder
\* knows every address
InitApp ==
    /\ address_cache = EmptyDict
    /\ store = EmptyDict
    /\ nominatim = AllKnown
    /\ calls = <<>>
    /\ matrix = None
    /\ ret = None
    /\ DATA \in {AppData(vdf, tasks) : vdf \in AppVehicleTables, tasks \in AppTaskTables}
    /\ instances = [p \in Processes |-> None]
    /\ files = [f \in Filenames |-> FileOf(EmptyDict, 0)]

NextApp ==
    \/ Idle /\ \E s \in OsrmStatuses : \E order \in Orders(TaskAddresses(DATA.job_selected)) :
                  PreprocessData(order, s)
    \/ Idle /\ \E task_type \in {"shipment", "job"} :
                  \E answer \in AppAnswers(task_type) :
                      \E path_answer \in PathAnswers, rejects_empty \in BOOLEAN :
                          Optimize(task_type, answer, path_answer, rejects_empty)
    \/ Return

SpecApp == InitApp /\ [][NextApp]_vars

(***************************************************************************)
(* Calls of the solver client and of the translation functions on the      *)
(* records, id mappers and solutions of the running example                *)
(***************************************************************************)
\* the shipments pass over the sample table of n trips
SampleShipmentPass(n) ==
    preprocess_shipments(SampleTasks(n), TRUE, [mem |-> EmptyDict, disk |-> EmptyDict],
                         AllKnown, <<"A", "B">>, 200)

\* the task kinds
TaskTypes == {"shipment", "job"}

\* the solver records of the n sample tasks, as jobs or as shipments
SampleRecords(task_type, n) ==
    IF task_type = "shipment" THEN SampleShipmentRecords(n) ELSE SampleJobRecords(n)

\* the solutions of one sample vehicle and n sample tasks
SampleSolutions(task_type, n) ==
    IF task_type = "shipment"
    THEN Solutions(SampleVehicleRecords(1), <<>>, SampleShipmentRecords(n))
    ELSE Solutions(SampleVehicleRecords(1), SampleJobRecords(n), <<>>)

\* the id mapper the shipments pass returns for the sample tasks
SampleMapper(n) == IF n = 0 THEN EmptyDict ELSE SampleShipmentPass(n).mapper

\* a route of a solution as app.optimize hands it to generate_leafmap
RouteForMap(route, vehicle_id) ==
    [duration     |-> route.duration,
     vehicle_id   |-> vehicle_id,
     distance     |-> route.distance,
     waiting_time |-> route.waiting_time,
     steps        |-> route.steps]

\* the rows of a task table that a solution leaves unassigned
UnassignedRows(jobs, solution, id_mapper) ==
    SelectSeq(jobs, LAMBDA row :
        \E k \in 1..Len(solution.unassigned) :
            /\ solution.unassigned[k].id \in DOMAIN id_mapper
            /\ id_mapper[solution.unassigned[k].id] = row.job_id)

\* a call helpers.get_job_address(veh_id, job_id, _type, jobs, vehicles, id_mapper)
GetJobAddress(veh_id, job_id, type, jobs, vehicles, id_mapper) ==
    /\ ret = None
    /\ ret' = [fn |-> "get_job_address", job_id |-> job_id, type |-> type,
               id_mapper |-> id_mapper,
               result |-> get_job_address(veh_id, job_id, type, jobs, vehicles, id_mapper)]
    /\ UNCHANGED <<address_cache, store, nominatim, calls, matrix, DATA, instances, files>>

\* a call app.format_summary(summary)
FormatSummary(summary) ==
    /\ ret = None
    /\ ret' = [fn |-> "format_summary", summary |-> summary,
               result |-> format_summary(summary)]
    /\ UNCHANGED <<address_cache, store, nominatim, calls, matrix, DATA, instances, files>>

\* a call app.format_route(vehicle, route, jobs, vehicles) while
\* DATA['id_mapper'][task_type] is id_mapper
FormatRoute(vehicle, route, jobs, vehicles, id_mapper) ==
    /\ ret = None
    /\ ret' = [fn |-> "format_route", route |-> route, id_mapper |-> id_mapper,
               result |-> format_route(vehicle, route, jobs, vehicles, id_mapper)]
    /\ UNCHANGED <<address_cache, store, nominatim, calls, matrix, DATA, instances, files>>

\* a call helpers.generate_leafmap(routes, id_mapper, jobs, vehicles, unassigned)
GenerateLeafmap(routes, id_mapper, jobs, vehicles, unassigned, path_answer, rejects_empty) ==
    \E r \in {generate_leafmap(routes, id_mapper, jobs, vehicles, unassigned, TheCache,
                               nominatim, [k \in 1..Len(routes) |-> path_answer],
                               rejects_empty)} :
        /\ ret = None
        /\ address_cache' = r.cache.mem
        /\ store' = r.cache.disk
        /\ ret' = [fn |-> "generate_leafmap", routes |-> routes, id_mapper |-> id_mapper,
                   unassigned |-> unassigned, path_answer |-> path_answer,
                   raised |-> r.raised, path_requests |-> r.path_requests, map |-> r.map]
        /\ UNCHANGED <<nominatim, calls, matrix, DATA, instances, files>>

\* a session in which the geocoder knows every address
InitTranslate == Init /\ nominatim = AllKnown

NextTranslate ==
    \/ Idle /\ \E task_type \in TaskTypes, nv \in 1..MaxRows, n \in 0..MaxRows :
          \E answer \in SolverAnswers(SampleVehicleRecords(nv),
                                      IF task_type = "job" THEN SampleJobRecords(n) ELSE <<>>,
                                      IF task_type = "job" THEN <<>> ELSE SampleShipmentRecords(n)) :
              RoutingOptimize(SampleVehicleRecords(nv),
                              IF task_type = "job" THEN SampleJobRecords(n) ELSE <<>>,
                              IF task_type = "job" THEN <<>> ELSE SampleShipmentRecords(n),
                              answer)
    \/ Idle /\ \E n \in 0..MaxRows, job_id \in 0..MaxRows \cup {StrayId},
                  type \in StepTypes \cup {"Start/End", "break"}, veh_id \in VehicleIds :
              GetJobAddress(veh_id, job_id, type, SampleTasks(n), SampleVehicles(1),
                            SampleMapper(n))
    \/ Idle /\ \E task_type \in TaskTypes, n \in 1..MaxRows :
          \E solution \in SampleSolutions(task_type, n) :
              FormatSummary(translated_summary(solution.summary,
                                IF task_type = "shipment" THEN "cpdptw" ELSE "cvrp",
                                SampleRecords(task_type, n)))
    \/ Idle /\ \E task_type \in TaskTypes, n \in 1..MaxRows :
          \E solution \in SampleSolutions(task_type, n) :
              \E k \in 1..Len(solution.routes) :
                  FormatRoute("V1", solution.routes[k].steps, SampleTasks(n),
                              SampleVehicles(1), SampleMapper(n))
    \/ Idle /\ \E task_type \in TaskTypes, n \in 1..MaxRows :
          \E solution \in SampleSolutions(task_type, n) :
              \E path_answer \in PathAnswers, rejects_empty \in BOOLEAN, as_list \in BOOLEAN :
                  GenerateLeafmap(
                      [k \in 1..Len(solution.routes) |-> RouteForMap(solution.routes[k], "V1")],
                      SampleMapper(n), SampleTasks(n), SampleVehicles(1),
                      IF as_list THEN AsList(solution.unassigned)
                      ELSE AsDataFrame(UnassignedRows(SampleTasks(n), solution, SampleMapper(n))),
                      path_answer, rejects_empty)
    \/ Return

SpecTranslate == InitTranslate /\ [][NextTranslate]_vars

(***************************************************************************)
(* AddressCache objects of independent processes on the store files. A     *)
(* save is open(constants.ADDRESS_STORE, "w"), which truncates the file,   *)
(* followed by json.dump and the close that writes the text at offset 0;   *)
(* another process can run between the two.                                *)
(***************************************************************************)
\* a file of length 0, as open(..., "w") leaves it
EmptyFile == [written |-> FALSE, text |-> EmptyDict, tail |-> 0]

\* the length of the JSON text of a mapping: the braces and one unit per entry
TextSize(mapping) == 1 + DictLen(mapping)

\* the length of a file
FileSize(file) == IF file.written THEN TextSize(file.text) + file.tail ELSE 0

\* the file after a process that opened it before wrote the text of mapping at
\* offset 0: what lay beyond the end of the new text stays
Overwritten(file, mapping) ==
    FileOf(mapping, IF FileSize(file) > TextSize(mapping)
                    THEN FileSize(file) - TextSize(mapping) ELSE 0)

\* json.load accepts the file: it holds the text of one mapping and nothing else
ValidJson(file) == file.written /\ file.tail = 0

\* the addresses the processes cache, and the geocode each of them has
StoreAddresses == {"A", "B"}

GeocodeOf(address) == <<Candidate(address).lon, Candidate(address).lat>>

\* an AddressCache object: f is "open" between the open and the close of save
Instance(filename, mapping, f) ==
    [filename |-> filename, address_cache |-> mapping, f |-> f]

\* process p holds an object that is not inside save
Ready(p) == instances[p] # None /\ instances[p].f = "closed"

\* AddressCache.__init__(filename) in process p
Construct(p, filename) ==
    /\ instances[p] = None
    /\ IF ValidJson(files[filename])
       THEN /\ instances' = [instances EXCEPT
                                ![p] = Instance(filename, files[filename].text, "closed")]
            /\ ret' = [fn |-> "AddressCache", process |-> p, raised |-> ""]
       ELSE /\ instances' = instances
            /\ ret' = [fn |-> "AddressCache", process |-> p, raised |-> "JSONDecodeError"]
    /\ UNCHANGED <<address_cache, store, nominatim, calls, matrix, DATA, files>>

\* the first half of save(): open(constants.ADDRESS_STORE, "w")
save_open(fs) == [fs EXCEPT ![ADDRESS_STORE] = EmptyFile]

\* the second half of save(): json.dump(self.address_cache, f) and the close
save_close(fs, mapping) ==
    [fs EXCEPT ![ADDRESS_STORE] = Overwritten(fs[ADDRESS_STORE], mapping)]

\* AddressCache.update(address, geocode, mode) in process p, up to the open in
\* save() when mode is 'hard'
InstanceUpdate(p, address, geocode, mode) ==
    /\ Ready(p)
    /\ \E mapping \in {DictSet(instances[p].address_cache, address, geocode)} :
          IF mode = "hard"
          THEN /\ instances' = [instances EXCEPT
                                   ![p] = Instance(instances[p].filename, mapping, "open")]
               /\ files' = save_open(files)
          ELSE /\ instances' = [instances EXCEPT
                                   ![p] = Instance(instances[p].filename, mapping, "closed")]
               /\ files' = files
    /\ ret' = [fn |-> "update", process |-> p, mode |-> mode]
    /\ UNCHANGED <<address_cache, store, nominatim, calls, matrix, DATA>>

\* AddressCache.reset(mode) in process p, up to the open in save() when mode
\* is 'hard'
InstanceReset(p, mode) ==
    /\ Ready(p)
    /\ IF mode = "hard"
       THEN /\ instances' = [instances EXCEPT
                                ![p] = Instance(instances[p].filename, EmptyDict, "open")]
            /\ files' = save_open(files)
       ELSE /\ instances' = [instances EXCEPT
                                ![p] = Instance(instances[p].filename, EmptyDict, "closed")]
            /\ files' = files
    /\ ret' = [fn |-> "reset", process |-> p, mode |-> mode]
    /\ UNCHANGED <<address_cache, store, nominatim, calls, matrix, DATA>>

\* the rest of a hard write in process p: the text is written and the file
\* closed, and update or reset returns
SaveClose(p) ==
    /\ instances[p] # None /\ instances[p].f = "open"
    /\ files' = save_close(files, instances[p].address_cache)
    /\ instances' = [instances EXCEPT ![p].f = "closed"]
    /\ ret' = [fn |-> "save", process |-> p]
    /\ UNCHANGED <<address_cache, store, nominatim, calls, matrix, DATA>>

\* both store files hold {} and no process has constructed its object yet
InitStore == Init /\ nominatim = AllKnown

NextStore ==
    \/ \E p \in Processes, filename \in Filenames : Construct(p, filename)
    \/ \E p \in Processes, a \in StoreAddresses, mode \in {"soft", "hard"} :
          \E g \in {GeocodeOf(a), None} : InstanceUpdate(p, a, g, mode)
    \/ \E p \in Processes, mode \in {"soft", "hard"} : InstanceReset(p, mode)
    \/ \E p \in Processes : SaveClose(p)

SpecStore == InitStore /\ [][NextStore]_vars


(***************************************************************************)
(* The summary statements of app.optimize, lines 254-258, on their own:    *)
(* summary = solution['summary'] names the dict inside DATA['solution'],   *)
(* and the two assignments to summary[...] write into it                   *)
(***************************************************************************)
\* app.optimize up to line 234 when routing.optimize returned `solution`:
\* DATA['solution'] = solution; jobs are the processed tasks of the call
StoreSolution(task_type, solution, jobs) ==
    /\ ret = None
    /\ DATA' = [DATA EXCEPT !.solution = solution]
    /\ ret' = [fn |-> "store_solution", task_type |-> task_type, jobs |-> jobs,
               response |-> solution]
    /\ UNCHANGED <<address_cache, store, nominatim, calls, matrix, instances, files>>

\* lines 254-258 of the same call, on the dict DATA['solution'] holds
TranslateSummary ==
    /\ ret # None /\ ret.fn = "store_solution"
    /\ DATA' = [DATA EXCEPT
                   !.solution.summary = translated_summary(
                       @, IF ret.task_type = "shipment" THEN "cpdptw" ELSE "cvrp", ret.jobs)]
    /\ ret' = [ret EXCEPT !.fn = "translate_summary"]
    /\ UNCHANGED <<address_cache, store, nominatim, calls, matrix, instances, files>>

NextSummary ==
    \/ \E task_type \in TaskTypes, n \in 1..MaxRows :
          \E solution \in SampleSolutions(task_type, n) :
              StoreSolution(task_type, solution, SampleRecords(task_type, n))
    \/ TranslateSummary
    \/ Return

SpecSummary == InitTranslate /\ [][NextSummary]_vars


(***************************************************************************)
(* A session of the UI: the table handlers of the Vehicles and Jobs tabs   *)
(* followed by the Preprocess and Optimize buttons, in any order           *)
(***************************************************************************)
\* guess_obj_name of the two labels
ObjNames == {"vehicle", "job"}

\* DATA[obj_name] = data; DATA[f"{obj_name}_selected"] = data
WithTable(D, obj_name, data) ==
    IF obj_name = "vehicle"
    THEN [D EXCEPT !.vehicle = data, !.vehicle_selected = data]
    ELSE [D EXCEPT !.job = data, !.job_selected = data]

\* app.upload_file(files, label); data is None when no file was chosen, else
\* the table read from the one file
upload_file(data, obj_name, D) ==
    IF data = None THEN D ELSE WithTable(D, obj_name, data)

\* the files the user has at hand for each tab
UploadFiles(obj_name) ==
    IF obj_name = "vehicle" THEN {SampleVehicles(1)} ELSE {SampleTasks(1)}

\* the Submit button of a tab
UploadFile(obj_name, data) ==
    /\ ret = None
    /\ DATA' = upload_file(data, obj_name, DATA)
    /\ ret' = [fn |-> "upload_file", obj_name |-> obj_name]
    /\ UNCHANGED <<address_cache, store, nominatim, calls, matrix, instances, files>>

\* app.save_changes(df, label): df without its empty rows replaces the table
\* unless nothing is left
save_changes(df, obj_name, D) ==
    IF Len(df) = 0 THEN D ELSE WithTable(D, obj_name, df)

\* what the user can leave in the component of a tab before saving: the table
\* shown, the table without its last row, or no row
Edits(table) ==
    {table, <<>>} \cup (IF Len(table) > 0 THEN {SubSeq(table, 1, Len(table) - 1)} ELSE {})

\* the table the component of a tab shows
Shown(D, obj_name) == IF obj_name = "vehicle" THEN D.vehicle_selected ELSE D.job_selected

\* the Save Changes button of a tab
SaveChanges(obj_name, df) ==
    /\ ret = None
    /\ DATA' = save_changes(df, obj_name, DATA)
    /\ ret' = [fn |-> "save_changes", obj_name |-> obj_name,
               returned |-> IF Len(df) = 0 THEN "No changes to save" ELSE "Changes saved"]
    /\ UNCHANGED <<address_cache, store, nominatim, calls, matrix, instances, files>>

\* app.update_date_selection(date) under @logger.catch; label is 'job'
update_date_selection(date, D) ==
    IF \E k \in 1..Len(D.job) : ~Parses(D.job[k].latest_delivery)
    THEN D
    ELSE [D EXCEPT !.job_selected =
              SelectSeq(D.job, LAMBDA row : DateOf(row.latest_delivery) = date)]

\* a change of the date picker of the Jobs tab to one of the dates of the
\* job table
UpdateDateSelection(date) ==
    /\ ret = None
    /\ DATA' = update_date_selection(date, DATA)
    /\ ret' = [fn |-> "update_date_selection", date |-> date]
    /\ UNCHANGED <<address_cache, store, nominatim, calls, matrix, instances, files>>

\* the job tables of a session: at most MaxRows trips from "A" to "B", each due
\* on the first or on the second day
SessionTaskTables ==
    {tasks \in AppTaskTables :
        \A k \in 1..Len(tasks) : Parses(tasks[k].earliest_pickup)
                                 /\ Parses(tasks[k].latest_delivery)}

\* the vehicle tables of a session: at most MaxRows vehicles on the day shift
SessionVehicleTables ==
    {vdf \in AppVehicleTables : \A k \in 1..Len(vdf) : vdf[k].working_hours = DayShift}

\* the geocoder knows every address, or has no candidate for "B"
SessionWorlds == {AllKnown, [AllKnown EXCEPT !["B"] = [status |-> 200, body |-> <<>>]]}

InitSession ==
    /\ address_cache = EmptyDict
    /\ store = EmptyDict
    /\ nominatim \in SessionWorlds
    /\ calls = <<>>
    /\ matrix = None
    /\ ret = None
    /\ DATA \in {AppData(vdf, tasks) : vdf \in SessionVehicleTables, tasks \in SessionTaskTables}
    /\ instances = [p \in Processes |-> None]
    /\ files = [f \in Filenames |-> FileOf(EmptyDict, 0)]

NextSession ==
    \/ \E obj_name \in ObjNames : \E f \in UploadFiles(obj_name) \cup {None} :
          UploadFile(obj_name, f)
    \/ \E obj_name \in ObjNames : \E df \in Edits(Shown(DATA, obj_name)) :
          SaveChanges(obj_name, df)
    \/ \E date \in UniqueDates(DATA.job) : UpdateDateSelection(date)
    \/ Idle /\ \E s \in OsrmStatuses : \E order \in Orders(TaskAddresses(DATA.job_selected)) :
                  PreprocessData(order, s)
    \/ Idle /\ \E answer \in AppAnswers("shipment") :
                  \E path_answer \in PathAnswers, rejects_empty \in BOOLEAN :
                      Optimize("shipment", answer, path_answer, rejects_empty)
    \/ Return

SpecSession == InitSession /\ [][NextSession]_vars


(***************************************************************************)
(* The legacy geocoder src/src/routing.get_geocode with utils.cache_address *)
(* A process that imported utils holds ADDRESS_CACHE, loaded once from the *)
(* store file, and the dict that is the default value of the parameter     *)
(* `store` of cache_address, created once when the function is defined.    *)
(***************************************************************************)
\* the module state of a process after `import utils` on the store file
LegacyModule(file) == [ADDRESS_CACHE |-> file.text, store |-> EmptyDict]

\* utils.cache_address(addresses, store, save) for one address; store is the
\* dict the call works on: the file afterwards and that dict afterwards
cache_address(address, geocode, store_dict, save, fs) ==
    LET updated == DictSet(store_dict, address, geocode)
    IN  [store |-> updated,
         files |-> IF save THEN [fs EXCEPT ![ADDRESS_STORE] = FileOf(updated, 0)] ELSE fs]

\* routing.get_geocode(address, use_cache) of the legacy package in a process
\* with module state m: the result, the module state and the files afterwards
\* and the number of requests sent to the external geocoder. The call of
\* cache_address passes no store, so it works on the default dict.
legacy_get_geocode(m, address, use_cache, response, fs) ==
    IF use_cache /\ address \in DOMAIN m.ADDRESS_CACHE
    THEN [result |-> m.ADDRESS_CACHE[address], module |-> m, files |-> fs, requests |-> 0]
    ELSE IF response.status = 200 /\ Len(response.body) > 0
    THEN IF use_cache
         THEN Only({[result   |-> FirstGeocode(response),
                     module   |-> [m EXCEPT !.store = c.store],
                     files    |-> c.files,
                     requests |-> 1]
                    : c \in {cache_address(address, FirstGeocode(response), m.store,
                                           TRUE, fs)}})
         ELSE [result |-> FirstGeocode(response), module |-> m, files |-> fs,
               requests |-> 1]
    ELSE [result |-> None, module |-> m, files |-> fs, requests |-> 1]

\* process p starts and imports the legacy package
LegacyImport(p) ==
    /\ instances[p] = None
    /\ instances' = [instances EXCEPT ![p] = LegacyModule(files[ADDRESS_STORE])]
    /\ UNCHANGED <<address_cache, store, nominatim, calls, matrix, ret, DATA, files>>

\* a call routing.get_geocode(address, use_cache) in process p
LegacyGetGeocode(p, address, use_cache) ==
    /\ instances[p] # None
    /\ \E r \in {legacy_get_geocode(instances[p], address, use_cache, nominatim[address],
                                    files)} :
          /\ instances' = [instances EXCEPT ![p] = r.module]
          /\ files' = r.files
          /\ calls' = Push(calls, [op        |-> "get_geocode",
                                   process   |-> p,
                                   address   |-> address,
                                   use_cache |-> use_cache,
                                   requests  |-> r.requests,
                                   result    |-> r.result])
    /\ UNCHANGED <<address_cache, store, nominatim, matrix, ret, DATA>>

\* process p ends; what it held in memory is gone
LegacyExit(p) ==
    /\ instances[p] # None
    /\ instances' = [instances EXCEPT ![p] = None]
    /\ UNCHANGED <<address_cache, store, nominatim, calls, matrix, ret, DATA, files>>

\* the store file holds {} and no process runs
InitLegacy == Init /\ nominatim \in {AllKnown, [AllKnown EXCEPT !["B"] = [status |-> 500, body |-> <<>>]]}

NextLegacy ==
    \/ \E p \in Processes : LegacyImport(p)
    \/ \E p \in Processes, a \in StoreAddresses, u \in BOOLEAN : LegacyGetGeocode(p, a, u)
    \/ \E p \in Processes : LegacyExit(p)

SpecLegacy == InitLegacy /\ [][NextLegacy]_vars


(***************************************************************************)
(* Claims about the geocoder and the address cache                         *)
(***************************************************************************)
\* the most recent operation, when there is one
LastCall == calls[Len(calls)]

\* the two most recent operations are get_geocode(A, use_cache=True) for one address A
TwoCachedCallsOfOneAddress ==
    /\ Len(calls) = 2
    /\ calls[1].op = "get_geocode" /\ calls[2].op = "get_geocode"
    /\ calls[1].address = calls[2].address
    /\ calls[1].use_cache /\ calls[2].use_cache

\* the response is HTTP 200 with zero candidates, or an HTTP failure
Negative(response) == response.status # 200 \/ Len(response.body) = 0

\* C1: two consecutive calls get_geocode(A, use_cache=True) send at most one
\* request to the external geocoder between them, and the second call returns
\* exactly what the first returned, a negative result included.
C1_AtMostOneRequest ==
    TwoCachedCallsOfOneAddress =>
        /\ calls[1].requests + calls[2].requests <= 1
        /\ calls[2].result = calls[1].result

\* C2: when get_geocode asks the external geocoder and gets HTTP 200 with zero
\* candidates or an HTTP failure, the cache holds a null entry for the address
\* afterwards and the call returns null.
C2_NegativeResultCached ==
    (/\ Len(calls) > 0
     /\ LastCall.op = "get_geocode"
     /\ LastCall.requests = 1
     /\ Negative(LastCall.response)) =>
        /\ LastCall.result = None
        /\ LastCall.address \in DOMAIN address_cache
        /\ address_cache[LastCall.address] = None

\* C3: a geocode the cache holds for an address is still what get(address)
\* returns after any get_geocode call, whatever use_cache and whatever the
\* external geocoder answers.
C3_CachedGeocodeImmutable ==
    [][(\E a \in Addresses, u \in BOOLEAN : GetGeocode(a, u)) =>
          \A a \in DOMAIN address_cache :
              Truthy(address_cache[a]) =>
                  DictGet(address_cache', a) = address_cache[a]]_vars

(***************************************************************************)
(* Claims about the preprocessing passes                                   *)
(***************************************************************************)
Preprocessors == {"preprocess_vehicles", "preprocess_shipments", "preprocess_jobs"}

\* a preprocessing pass has just returned its dictionary
PassReturned == ret # None /\ ret.fn \in Preprocessors /\ ~ret.raised

\* the solver id a record carries
SolverId(rec) == IF ret.fn = "preprocess_shipments" THEN rec.pickup.id ELSE rec.id

\* the domain id of an input row
DomainId(row) == IF ret.fn = "preprocess_vehicles" THEN row.vehicle_id ELSE row.job_id

\* the position in the input table of the row that became the j-th record
KeptRow(j) ==
    CHOOSE k \in 1..Len(ret.table) :
        /\ k \notin ret.dropped
        /\ Cardinality({m \in 1..k : m \notin ret.dropped}) = j

\* C4: after every preprocessing pass the IdMapper holds exactly one entry per
\* successfully processed row and the solver ids of the successful rows are
\* 0..k-1 in row order, also when rows fail and when the index does not start at 0.
C4_DenseSolverIds ==
    PassReturned =>
        /\ DictLen(ret.vroom_id_mapper) = Len(ret.records)
        /\ \A j \in 1..Len(ret.records) : SolverId(ret.records[j]) = j - 1

\* C5: records returned + error entries returned = input rows, also when
\* several dropped rows carry the same domain id.
C5_RecordsPlusErrorsIsRows ==
    PassReturned =>
        Len(ret.records) + DictLen(ret.errors) = Len(ret.table)

\* C6: looking up the solver id of a record in the returned IdMapper gives the
\* domain id of the row the record was made from.
C6_RoundTrip ==
    PassReturned =>
        \A j \in 1..Len(ret.records) :
            /\ SolverId(ret.records[j]) \in DOMAIN ret.vroom_id_mapper
            /\ ret.vroom_id_mapper[SolverId(ret.records[j])] = DomainId(ret.table[KeptRow(j)])

\* C7: every vehicle row whose address could not be geocoded is in the errors
\* under its domain id, has no IdMapper entry (its domain id is no value, its
\* solver id no key), and shortens the processed list by one; every row that
\* succeeded has an IdMapper entry.
C7_FailedVehicleRow ==
    (PassReturned /\ ret.fn = "preprocess_vehicles") =>
        /\ \A k \in ret.dropped :
              /\ ret.table[k].vehicle_id \in DOMAIN ret.errors
              /\ \A i \in DOMAIN ret.vroom_id_mapper :
                    ret.vroom_id_mapper[i] # ret.table[k].vehicle_id
              /\ VroomId(ret.table[k]) \notin DOMAIN ret.vroom_id_mapper
        /\ Len(ret.records) = Len(ret.table) - Cardinality(ret.dropped)
        /\ \A k \in (1..Len(ret.table)) \ ret.dropped :
              VroomId(ret.table[k]) \in DOMAIN ret.vroom_id_mapper

(***************************************************************************)
(* Claims about LocationsMatrix                                            *)
(***************************************************************************)
\* address a was geocoded into the matrix: its coordinate is in the request
InMatrix(a) == a \in DOMAIN matrix.pos

\* C9: get_duration and get_distance never raise, and return None whenever one
\* of the two addresses was not geocoded into the matrix or is unknown to it,
\* never the entry of another address.
C9_AccessorsReturnAbsence ==
    (ret # None /\ ret.fn \in {"get_duration", "get_distance"}) =>
        /\ ret.result.outcome # "IndexError"
        /\ (~InMatrix(ret.source) \/ ~InMatrix(ret.destination)) =>
               ret.result.outcome = "None"

(***************************************************************************)
(* Claims about preprocess_shipments                                       *)
(***************************************************************************)
\* the external geocoder has no coordinates for the address
Unresolvable(a) == Negative(nominatim[a])

\* a row whose pickup or delivery address cannot be geocoded
BadRow(row) == Unresolvable(row.pickup_address) \/ Unresolvable(row.delivery_address)

\* preprocess_shipments has just ended, by returning or by raising, and the
\* matrix endpoint had answered its request
ShipmentsEnded ==
    ret # None /\ ret.fn = "preprocess_shipments" /\ ret.osrm_status = 200

\* C8: a batch with addresses that cannot be geocoded still returns normally,
\* with the records of all other rows and one error for each bad row, whatever
\* the position of the bad address in the set handed to LocationsMatrix.
C8_BadAddressNeverFailsBatch ==
    (ShipmentsEnded /\ \E k \in 1..Len(ret.table) : BadRow(ret.table[k])) =>
        /\ ~ret.raised
        /\ ret.dropped = {k \in 1..Len(ret.table) : BadRow(ret.table[k])}
        /\ Len(ret.records) = Len(ret.table) - Cardinality(ret.dropped)
        /\ DictLen(ret.errors) = Cardinality(ret.dropped)

\* the upper bound of the pickup window of a shipment record: the effective
\* earliest pickup max(earliest_pickup, latest_delivery - d) as a timestamp
EffectivePickup(rec) == rec.pickup.time_windows[1][2]

\* the two bounds of C10 for the j-th record of the pass
PickupWithinBounds(j) ==
    LET row == ret.table[KeptRow(j)]
        rec == ret.records[j]
    IN  /\ EffectivePickup(rec) >= str_to_timestamp(row.earliest_pickup - MAX_WAIT_TIME)
        /\ EffectivePickup(rec) <= str_to_timestamp(row.latest_delivery)

\* C10 as stated: for every shipment record emitted, the effective earliest
\* pickup is at least earliest_pickup - MAX_WAIT_TIME and at most latest_delivery.
C10_PickupWithinBounds ==
    (PassReturned /\ ret.fn = "preprocess_shipments") =>
        \A j \in 1..Len(ret.records) : PickupWithinBounds(j)

\* C10 amended: the two bounds hold for every shipment record whose row has
\* earliest_pickup <= latest_delivery.
C10_PickupWithinBoundsOfOrderedRow ==
    (PassReturned /\ ret.fn = "preprocess_shipments") =>
        \A j \in 1..Len(ret.records) :
            ret.table[KeptRow(j)].earliest_pickup <= ret.table[KeptRow(j)].latest_delivery
                => PickupWithinBounds(j)

\* a shipment record of an ordered row whose effective pickup is the estimate
\* latest_delivery - d, later than the earliest_pickup given
C10_Witness ==
    /\ PassReturned /\ ret.fn = "preprocess_shipments"
    /\ \E j \in 1..Len(ret.records) :
          /\ ret.table[KeptRow(j)].earliest_pickup <= ret.table[KeptRow(j)].latest_delivery
          /\ EffectivePickup(ret.records[j]) >
                 str_to_timestamp(ret.table[KeptRow(j)].earliest_pickup)
          /\ EffectivePickup(ret.records[j]) <
                 str_to_timestamp(ret.table[KeptRow(j)].latest_delivery)

(***************************************************************************)
(* Claims about the solver client and the optimize step                    *)
(***************************************************************************)
\* a call of routing.optimize has ended
SolverCalled == ret # None /\ ret.fn = "routing.optimize"

\* C11: routing.optimize sends exactly one POST to the solver per call, never
\* retries, returns the parsed response body on success and None on every
\* non-2xx response.
C11_OnePostBodyOrNone ==
    SolverCalled =>
        /\ ret.posts = 1
        /\ (ret.answer.kind = "response" /\ ret.answer.status = 200) =>
               (ret.raised = "" /\ ret.result = ret.answer.body)
        /\ (ret.answer.kind = "response" /\ ret.answer.status \notin 200..299) =>
               (ret.raised = "" /\ ret.result = None)

\* the solver answered 500 to a request with a vehicle and a shipment: one POST
\* was sent and the call returned None
C11_Witness ==
    /\ SolverCalled
    /\ ret.answer.kind = "response" /\ ret.answer.status = 500
    /\ Len(ret.request.vehicles) > 0 /\ Len(ret.request.shipments) > 0
    /\ ret.posts = 1 /\ ret.result = None


\* a call of app.optimize has ended
AppOptimized == ret # None /\ ret.fn = "app.optimize"

\* C12: when the solver endpoint answers HTTP 500, routing.optimize returns None
\* and every output of the optimize step (summary, unassigned list, map and
\* vehicle picker) is handed a value that indicates failure.
C12_Http500EveryOutputFails ==
    (AppOptimized /\ ret.posts = 1 /\ ret.answer.kind = "response"
       /\ ret.answer.status = 500) =>
        /\ ret.solution = None
        /\ ret.raised = ""
        /\ Len(ret.returned) = Len(OptimizeOutputs)
        /\ ret.returned[1] = "Optimization failed"
        /\ ret.returned[2] = "Optimization failed"
        /\ ret.returned[3] = generate_generic_leafmap

\* C13: a network error while calling the solver is handled like a non-2xx
\* response: the run ends and the optimize step hands "Optimization failed" to
\* its outputs.
C13_NetworkErrorSurfacedAsFailure ==
    (AppOptimized /\ ret.posts = 1 /\ ret.answer.kind = "ConnectionError") =>
        /\ ret.raised = ""
        /\ ret.solution = None
        /\ Len(ret.returned) >= 2
        /\ ret.returned[1] = "Optimization failed"
        /\ ret.returned[2] = "Optimization failed"

\* C14: after a run in which the solver answered with a solution, the unassigned
\* count of the translated summary DATA['solution']['summary'] is the solver's
\* raw count divided by two in shipment mode, and the raw count in job mode.
C14_UnassignedHalvedInShipmentMode ==
    (AppOptimized /\ ret.posts = 1 /\ ret.answer.kind = "response"
       /\ ret.answer.status = 200) =>
        DATA.solution.summary.unassigned =
            IF ret.task_type = "shipment"
            THEN ret.answer.body.summary.unassigned \div 2
            ELSE ret.answer.body.summary.unassigned

(***************************************************************************)
(* Claims about the translation of a solution                              *)
(***************************************************************************)
\* the steps of a route that refer to a job or shipment
TaskStepsOf(steps) == {k \in 1..Len(steps) : steps[k].type \notin {"start", "end"}}

\* C15: a route step whose job/shipment id is absent from the IdMapper never
\* raises: get_job_address returns "No Address Provided" for it, and
\* format_route goes on and gives that placeholder as the address of the step.
C15_AbsentIdGivesPlaceholder ==
    /\ (ret # None /\ ret.fn = "get_job_address"
          /\ ret.type \in {"pickup", "delivery", "job"}
          /\ ret.job_id \notin DOMAIN ret.id_mapper) =>
           ret.result = Returned("No Address Provided")
    /\ (ret # None /\ ret.fn = "format_route") =>
           \A k \in TaskStepsOf(ret.route) :
               ret.route[k].id \notin DOMAIN ret.id_mapper =>
                   /\ ret.result.raised = ""
                   /\ ret.result.value[k].address = "No Address Provided"

\* the straight segments between the ordered stops of a route, as [lat, lon]
StraightLine(route) == [k \in 1..Len(route.steps) |-> Reversed(route.steps[k].location)]

\* every step of the routes refers to the vehicle or to an id the mapper holds
AllIdsMapped(routes, id_mapper) ==
    \A r \in 1..Len(routes) : \A k \in TaskStepsOf(routes[r].steps) :
        routes[r].steps[k].id \in DOMAIN id_mapper

\* C16: for every route, translation issues one call to the route-shape API;
\* when that call fails (non-OK response or error) the translation is not
\* aborted and the line drawn for the route is the straight segments between
\* its ordered stops.
C16_PathFailureFallsBackToStraightLine ==
    (ret # None /\ ret.fn = "generate_leafmap" /\ ret.unassigned.kind = "DataFrame"
       /\ Len(ret.routes) > 0 /\ AllIdsMapped(ret.routes, ret.id_mapper)) =>
        /\ ret.path_requests = Len(ret.routes)
        /\ ret.path_answer # "ok" =>
               /\ ret.raised = ""
               /\ \A r \in 1..Len(ret.routes) :
                      ret.map.lines[r].locations = StraightLine(ret.routes[r])

\* ceil(seconds / 60): the least whole number of minutes that covers seconds
MinutesRoundedUp(seconds) ==
    CHOOSE m \in 0..seconds : m * 60 >= seconds /\ (m = 0 \/ (m - 1) * 60 < seconds)

\* ceil(meters * 0.000621371): the least whole m with m * 10^6 >= meters * 621.371
MilesRoundedUp(meters) ==
    LET micro == meters * 621 + (meters * 371 + 999) \div 1000
    IN  CHOOSE m \in 0..(meters \div 1000 + 1) :
            m * 1000000 >= micro /\ (m = 0 \/ (m - 1) * 1000000 < micro)

\* C17: every derived display field uses the fixed conversions rounded up:
\* minutes = ceil(seconds / 60) and miles = ceil(meters * 0.000621371), in the
\* summary (format_summary), the step table (format_route) and the step
\* features of the map (geojson_assigned).
C17_DisplayFieldsRoundedUp ==
    /\ (ret # None /\ ret.fn = "generate_leafmap" /\ ret.raised = "") =>
           \A r \in 1..Len(ret.routes) : \A k \in 1..Len(ret.routes[r].steps) :
               LET step == ret.routes[r].steps[k]
                   shown == ret.map.vehicles[r][k].properties
               IN  /\ shown.duration = MinutesRoundedUp(step.duration)
                   /\ shown.distance = MilesRoundedUp(step.distance)
                   /\ shown.waiting_time = MinutesRoundedUp(step.waiting_time)
                   /\ shown.service = MinutesRoundedUp(step.service)
    /\ (ret # None /\ ret.fn = "format_summary") =>
           /\ ret.result.distance_mi = MilesRoundedUp(ret.summary.distance)
           /\ ret.result.service_min = MinutesRoundedUp(ret.summary.service)
           /\ ret.result.waiting_min = MinutesRoundedUp(ret.summary.waiting_time)
           /\ ret.result.duration_min = MinutesRoundedUp(ret.summary.duration)
    /\ (ret # None /\ ret.fn = "format_route" /\ ret.result.raised = "") =>
           \A k \in 1..Len(ret.route) :
               /\ ret.result.value[k].waiting_time_min =
                      MinutesRoundedUp(ret.route[k].waiting_time)
               /\ ret.result.value[k].distance_mile =
                      MilesRoundedUp(ret.route[k].distance)

(***************************************************************************)
(* Claims about the order of validation and external calls                 *)
(***************************************************************************)
\* a row of the two tables of DATA has a working_hours text or a date that
\* cannot be parsed
MalformedTables ==
    \/ \E k \in 1..Len(DATA.vehicle) : ~WellFormedInterval(DATA.vehicle[k].working_hours)
    \/ \E k \in 1..Len(DATA.job) :
          ~Parses(DATA.job[k].earliest_pickup) \/ ~Parses(DATA.job[k].latest_delivery)

\* C18: malformed input (an unparseable date or working-hours text in the
\* vehicle or task table) fails the whole preprocessing batch before any
\* request is sent to the geocoder or to the matrix endpoint.
C18_MalformedInputFailsBeforeExternalCalls ==
    (ret # None /\ ret.fn = "preprocess_data" /\ MalformedTables
       /\ Len(DATA.vehicle) > 0 /\ Len(DATA.job) > 0) =>
        /\ ret.raised # "" \/ ret.returned[2] = ""
        /\ ret.requests = 0


(***************************************************************************)
(* Claims about hard writes of the address cache                           *)
(***************************************************************************)
\* a hard write of process p has just completed
HardWriteDone(p) == ret # None /\ ret.fn = "save" /\ ret.process = p

\* no process is between the open and the close of a save
Quiescent == \A p \in Processes : instances[p] = None \/ instances[p].f = "closed"

\* C19: after a hard write (update or reset with mode 'hard') on an AddressCache
\* instance, the store file the instance was constructed from contains exactly
\* the instance's whole in-memory mapping. Stated for an instance that is the
\* only one.
C19_HardWriteFillsOwnStore ==
    \A p \in Processes :
        (HardWriteDone(p) /\ \A q \in Processes \ {p} : instances[q] = None) =>
            files[instances[p].filename] = FileOf(instances[p].address_cache, 0)

\* C20: hard writes from two independent AddressCache instances loaded from the
\* same store are not serialized and the last writer wins: after any
\* interleaving the store equals the in-memory mapping of the instance that
\* wrote last. Stated for two instances loaded from constants.ADDRESS_STORE.
C20_LastWriterWins ==
    \A p \in Processes :
        (/\ HardWriteDone(p)
         /\ Quiescent
         /\ \A q \in Processes :
               instances[q] # None /\ instances[q].filename = ADDRESS_STORE) =>
            files[ADDRESS_STORE] = FileOf(instances[p].address_cache, 0)


(***************************************************************************)
(* Claims about the time windows of the records                            *)
(***************************************************************************)
\* the pickup window [lower, upper] of a shipment record
PickupWindow(rec) == rec.pickup.time_windows[1]

C26_VehicleWindowOrdered ==
    (PassReturned /\ ret.fn = "preprocess_vehicles") =>
        \A j \in 1..Len(ret.records) :
            ret.records[j].time_window[1] <= ret.records[j].time_window[2]

\* preprocess_data has returned its report of a pass
PreprocessReported ==
    ret # None /\ ret.fn = "preprocess_data" /\ ret.raised = "" /\ ret.returned[2] # ""

\* the calendar date of an epoch timestamp in the time zone of the process
DateOfTimestamp(ts) == DateOf(ts + LocalUtcOffset)

\* C27: the operating date used to build the vehicle time windows in
\* routing.preprocess equals the single date that app.preprocess_data validated
\* and reports for the batch, for every task table that passes the single-date
\* check.
C27_OperatingDateIsReportedDate ==
    PreprocessReported =>
        \A j \in 1..Len(DATA.vehicle_processed) :
            DateOfTimestamp(DATA.vehicle_processed[j].time_window[1]) = ret.returned[1].date


(***************************************************************************)
(* Claims about the index of LocationsMatrix                               *)
(***************************************************************************)
\* the external geocoder has a candidate for the address
Geocodable(a) == nominatim[a].status = 200 /\ Len(nominatim[a].body) > 0

\* the geocoded addresses of the matrix built last
GeocodedLocations == {a \in ToSet(matrix.order) : Geocodable(a)}

\* C29: in LocationsMatrix.compute_matrices, every address that was geocoded is
\* mapped by lookup to the row/column of its own coordinate in the matrix
\* request, and no two geocoded addresses share an index, whatever subset of
\* the addresses fails geocoding.
C29_LookupOfGeocodedAddresses ==
    matrix # None =>
        /\ \A a \in GeocodedLocations :
              /\ matrix.obj.lookup[a] < Len(matrix.coords)
              /\ matrix.coords[matrix.obj.lookup[a] + 1] = GeocodeOf(a)
        /\ \A a, b \in GeocodedLocations :
              a # b => matrix.obj.lookup[a] # matrix.obj.lookup[b]

\* a matrix over an address that failed geocoding followed, in the iteration,
\* by one that was geocoded: the two have the same index
C29_Witness ==
    /\ matrix # None
    /\ \E i, j \in 1..Len(matrix.order) :
          /\ i < j
          /\ ~Geocodable(matrix.order[i])
          /\ Geocodable(matrix.order[j])
          /\ matrix.obj.lookup[matrix.order[i]] = matrix.obj.lookup[matrix.order[j]]


(***************************************************************************)
(* Claims about resets of the address cache                                *)
(***************************************************************************)
\* the most recent operation is reset(mode)
ResetLast(mode) == calls # <<>> /\ LastCall.op = "reset" /\ LastCall.mode = mode

\* C28: a soft reset of the AddressCache leaves the backing store unchanged,
\* and no operation other than reset with mode 'hard' removes from the backing
\* store an address that was persisted there, in particular no update (soft
\* or hard) that follows a soft reset.
C28_OnlyHardResetRemovesPersisted ==
    [][ /\ ResetLast("soft")' => store' = store
        /\ ~ResetLast("hard")' => \A a \in DOMAIN store : a \in DOMAIN store' ]_vars


(***************************************************************************)
(* Claims about the order of preprocessing and optimization                *)
(***************************************************************************)
\* the records DATA holds are those of a pass that reported 'complete': at
\* least one processed vehicle and at least one processed task. app.optimize
\* leaves both lists as it found them.
ProcessedComplete ==
    /\ ~NotPreprocessed(DATA)
    /\ Len(DATA.vehicle_processed) > 0
    /\ Len(DATA.job_processed) > 0

\* C25: app.optimize never posts a request to the solver unless the most recent
\* preprocessing pass reported status 'complete' (at least one processed
\* vehicle and at least one processed task); not before any preprocessing and
\* not after a pass that reported 'failed'.
C25_PostsOnlyAfterCompletePass ==
    (AppOptimized /\ ret.posts > 0) => ProcessedComplete


RoutesFormatted == AppOptimized /\ ret.solution # None /\ ret.raised = "AttributeError"

\* the vehicles that have a route in a solution, by their ids of the table
RoutedVehicles(solution) ==
    {VehicleIdOf(DATA, solution.routes[k]) : k \in 1..Len(solution.routes)}

\* C24: after any sequence of app.optimize runs, DATA['routes'] contains an
\* entry exactly for the vehicles that have a route in the most recent
\* solution; a vehicle routed in an earlier run but not in the latest one has
\* no entry.
C24_RoutesOfLatestSolutionOnly ==
    RoutesFormatted => DOMAIN DATA.routes = RoutedVehicles(ret.solution)


(***************************************************************************)
(* Claims about the pass the translation reads from                        *)
(***************************************************************************)
\* a call of app.optimize got a solution and translated it as far as it goes
TranslationRan == AppOptimized /\ ret.solution # None

\* the processed records, the errors and the IdMapper DATA holds are those a
\* preprocessing pass gives over the two tables the translation re-attaches
\* addresses from
SamePass ==
    \E s \in OsrmStatuses : \E order \in Orders(TaskAddresses(DATA.job_selected)) :
        \E r \in {preprocess_data(DATA.vehicle_selected, DATA.job_selected, "shipment",
                                  TRUE, DATA, TheCache, nominatim, order, s)} :
            /\ r.raised = ""
            /\ r.returned[2] # ""
            /\ r.data.vehicle_processed = DATA.vehicle_processed
            /\ r.data.job_processed = DATA.job_processed
            /\ r.data.id_mapper = DATA.id_mapper

\* C22: for any sequence of UI operations (upload_file, save_changes,
\* update_date_selection, preprocess_data, optimize), whenever optimize
\* translates a solution, the IdMapper, the processed records sent to the
\* solver and the job and vehicle tables used to re-attach addresses all come
\* from the same preprocessing pass, and translation does not modify the
\* IdMapper.
C22_TranslationReadsOnePass ==
    TranslationRan => (DATA.id_mapper = ret.id_mapper /\ SamePass)


(***************************************************************************)
(* Claims about the legacy geocoder                                        *)
(***************************************************************************)
\* the most recent call resolved an address at the external geocoder and
\* cached it with save=True
LegacyCached ==
    /\ calls # <<>>
    /\ LastCall.op = "get_geocode" /\ LastCall.use_cache
    /\ LastCall.requests = 1 /\ LastCall.result # None

\* the address of the older of the two most recent calls was resolved and
\* cached by it, and the next call, in the same process, asks for it again
LegacyAskedAgain ==
    /\ Len(calls) = 2
    /\ calls[1].use_cache /\ calls[1].requests = 1 /\ calls[1].result # None
    /\ calls[2].use_cache
    /\ calls[2].process = calls[1].process
    /\ calls[2].address = calls[1].address

\* the addresses the store file holds
Persisted == DOMAIN files[ADDRESS_STORE].text

\* C30: in the legacy geocoder, resolving and caching a new address with
\* save=True never removes from the address store file an address that was
\* persisted there before, and the newly cached address is found by the next
\* get_geocode call without another external request.
C30_LegacyCacheKeepsAndServes ==
    [][ /\ LegacyCached' => \A a \in Persisted : a \in Persisted'
        /\ LegacyAskedAgain' => calls'[2].requests = 0 ]_vars


====
